---- MODULE Spec2Model ----
(***************************************************************************)
(* Fixed-width mortality record decoder (src/main.py, src/schema.py,       *)
(* src/utils.py): the field catalog, the per-field decoders, the row       *)
(* assembler of process_lines_batch and the batch pipeline of              *)
(* parallel_process_lines.                                                 *)
(*                                                                         *)
(* Text is a sequence of one-character strings.  Python values are tagged  *)
(* records (VNone, VInt, VBool, VStr, ...), so that truthiness and         *)
(* isinstance tests are computed as the interpreter computes them.         *)
(***************************************************************************)
EXTENDS Integers, Sequences, FiniteSets, TLC

VARIABLES
  lines,        \* parallel_process_lines: the loaded lines (each a catalog line id)
  W,            \* MAX_PARALLEL_PROCESSING of this run
  pc,           \* position of the main process in parallel_process_lines
  batches,      \* the batches, each a slice of lines
  fstate,       \* per future: "queued", "running" or "done"
  fn,           \* per worker: n, the number of lines taken from its batch
  ftemp,        \* per worker: temp, the rows built so far
  fresult,      \* per future: the value future.result() gives (or raises)
  _progress,    \* the manager dict: task id -> [progress, total]
  bars,         \* the observer: what the progress bars show
  results,      \* line 1398: the collected batch results
  outcome,      \* what parallel_process_lines returned or raised
  ncast,        \* number of times .cast(dataset_schema) ran
  completion,   \* history: the futures in the order they became done
  probe         \* decoder under test: [field, value, result] (DecodeSpec)

vars == <<lines, W, pc, batches, fstate, fn, ftemp, fresult, _progress, bars,
          results, outcome, ncast, completion, probe>>

-----------------------------------------------------------------------------
(* Python values *)

VNone == [t |-> "None"]
VInt(i) == [t |-> "Int", i |-> i]
VBool(b) == [t |-> "Bool", b |-> b]
\* an enumerated label held as one string
VStr(s) == [t |-> "Str", s |-> s]
\* a label of race_recode_40_mapping, held as its "_"-separated words
VLabel(w) == [t |-> "Label", w |-> w]
\* raw text passed through verbatim
VText(c) == [t |-> "Text", c |-> c]
VTuple(lo, hi) == [t |-> "Tuple", lo |-> lo, hi |-> hi]
VList(xs) == [t |-> "List", xs |-> xs]
VDict(part, line, cond) ==
  [t |-> "Dict", certificate_part |-> part, certificate_line |-> line,
   condition |-> cond]

\* bool(v) of the interpreter: what `if v:` and `a or b` test
Truthy(v) ==
  CASE v.t = "None" -> FALSE
    [] v.t = "Int" -> v.i # 0
    [] v.t = "Bool" -> v.b
    [] v.t = "Str" -> v.s # ""
    [] v.t = "Label" -> v.w # <<>>
    [] v.t = "Text" -> v.c # <<>>
    [] v.t = "Tuple" -> TRUE
    [] v.t = "List" -> v.xs # <<>>
    [] v.t = "Dict" -> TRUE

\* resulty: Ok(x), Err(e); an exception leaving a function is Raise(e)
Ok(x) == [tag |-> "Ok", val |-> x]
Err(e) == [tag |-> "Err", err |-> e]
Raise(e) == [tag |-> "Raise", exc |-> e]

\* the two message shapes of the decoders: field is "" when the message names none
CouldNotParse(s) == [kind |-> "Could not parse", field |-> "", text |-> s]
InvalidValue(field, text) == [kind |-> "Invalid value for", field |-> field, text |-> text]

-----------------------------------------------------------------------------
(* Text helpers *)

Digits == <<"0", "1", "2", "3", "4", "5", "6", "7", "8", "9">>
IsDigit(c) == \E i \in 1..10 : Digits[i] = c
DigitVal(c) == (CHOOSE i \in 1..10 : Digits[i] = c) - 1
Whitespace == {" ", "\n"}

\* str.strip(): the text between the first and the last non-whitespace character
strip(s) ==
  LET kept == { i \in 1..Len(s) : s[i] \notin Whitespace }
  IN IF kept = {} THEN <<>>
     ELSE SubSeq(s, CHOOSE i \in kept : \A k \in kept : i <= k,
                    CHOOSE i \in kept : \A k \in kept : k <= i)

\* str(v) of an integer
RECURSIVE NatToStr(_)
NatToStr(n) ==
  IF n < 10 THEN <<Digits[n + 1]>> ELSE NatToStr(n \div 10) \o <<Digits[(n % 10) + 1]>>

str(v) == IF v < 0 THEN <<"-">> \o NatToStr(-v) ELSE NatToStr(v)

\* the value of a digit string, "_" separators skipped
RECURSIVE DigitsValue(_, _)
DigitsValue(s, acc) ==
  IF s = <<>> THEN acc
  ELSE IF s[1] = "_" THEN DigitsValue(Tail(s), acc)
  ELSE DigitsValue(Tail(s), 10 * acc + DigitVal(s[1]))

\* what int(s) accepts: surrounding whitespace, an optional sign, digits with
\* single "_" between digits
IsIntLiteral(s) ==
  LET t == strip(s)
      body == IF t # <<>> /\ t[1] \in {"-", "+"} THEN Tail(t) ELSE t
  IN /\ body # <<>>
     /\ \A i \in 1..Len(body) :
          \/ IsDigit(body[i])
          \/ /\ body[i] = "_"
             /\ 1 < i /\ i < Len(body)
             /\ IsDigit(body[i - 1]) /\ IsDigit(body[i + 1])

IntOf(s) ==
  LET t == strip(s)
  IN IF t[1] = "-" THEN 0 - DigitsValue(Tail(t), 0)
     ELSE IF t[1] = "+" THEN DigitsValue(Tail(t), 0)
     ELSE DigitsValue(t, 0)

try_parse_int(s) == IF IsIntLiteral(s) THEN Ok(IntOf(s)) ELSE Err(CouldNotParse(s))

\* dict.get(k)
get(d, k) == IF k \in DOMAIN d THEN d[k] ELSE VNone

\* d[k] = v
put(d, k, v) == (k :> v) @@ d

\* utils.get_in_range over the items of a range-keyed dict, in insertion order
RECURSIVE get_in_range_from(_, _, _)
get_in_range_from(d, v, i) ==
  IF i > Len(d) THEN VNone
  ELSE IF d[i][1] <= v /\ v <= d[i][2] THEN d[i][3]
  ELSE get_in_range_from(d, v, i + 1)

get_in_range(d, v) == get_in_range_from(d, v, 1)

range_keyed_dict_has_key(d, v) == \E i \in 1..Len(d) : d[i][1] <= v /\ v <= d[i][2]

-----------------------------------------------------------------------------
(* The field catalog and the code tables *)

mapping ==
  << <<1, 18, "reserved_positions">>,
     <<19, 19, "record_type">>,
     <<20, 20, "resident_status">>,
     <<21, 62, "reserved_positions">>,
     <<63, 63, "education">>,
     <<64, 64, "education_reporting_flag">>,
     <<65, 66, "month_of_death">>,
     <<67, 68, "reserved_positions">>,
     <<69, 69, "sex">>,
     <<70, 73, "detail_age">>,
     <<74, 74, "age_substitution_flag">>,
     <<75, 76, "age_recode_52">>,
     <<77, 78, "age_recode_27">>,
     <<79, 80, "age_recode_12">>,
     <<81, 82, "infant_age_recode_22">>,
     <<83, 83, "place_of_death_and_decedents_status">>,
     <<84, 84, "marital_status">>,
     <<85, 85, "day_of_week_of_death">>,
     <<86, 101, "reserved_positions">>,
     <<102, 105, "current_data_year">>,
     <<106, 106, "injury_at_work">>,
     <<107, 107, "manner_of_death">>,
     <<108, 108, "method_of_disposition">>,
     <<109, 109, "autopsy">>,
     <<110, 143, "reserved_positions">>,
     <<144, 144, "activity_code">>,
     <<145, 145, "place_of_injury">>,
     <<146, 149, "icd_code">>,
     <<150, 152, "cause_recode_358">>,
     <<153, 153, "reserved_positions">>,
     <<154, 156, "cause_recode_113">>,
     <<157, 159, "infant_cause_recode_130">>,
     <<160, 161, "cause_recode_39">>,
     <<162, 162, "reserved_positions">>,
     <<163, 164, "number_of_entity_axis_conditions">>,
     <<165, 171, "entity_axis_condition_1">>,
     <<172, 178, "entity_axis_condition_2">>,
     <<179, 185, "entity_axis_condition_3">>,
     <<186, 192, "entity_axis_condition_4">>,
     <<193, 199, "entity_axis_condition_5">>,
     <<200, 206, "entity_axis_condition_6">>,
     <<207, 213, "entity_axis_condition_7">>,
     <<214, 220, "entity_axis_condition_8">>,
     <<221, 227, "entity_axis_condition_9">>,
     <<228, 234, "entity_axis_condition_10">>,
     <<235, 241, "entity_axis_condition_11">>,
     <<242, 248, "entity_axis_condition_12">>,
     <<249, 255, "entity_axis_condition_13">>,
     <<256, 262, "entity_axis_condition_14">>,
     <<263, 269, "entity_axis_condition_15">>,
     <<270, 276, "entity_axis_condition_16">>,
     <<277, 283, "entity_axis_condition_17">>,
     <<284, 290, "entity_axis_condition_18">>,
     <<291, 297, "entity_axis_condition_19">>,
     <<298, 304, "entity_axis_condition_20">>,
     <<305, 340, "reserved_positions">>,
     <<341, 342, "number_of_record_axis_conditions">>,
     <<343, 343, "reserved_positions">>,
     <<344, 348, "record_axis_condition_1">>,
     <<349, 353, "record_axis_condition_2">>,
     <<354, 358, "record_axis_condition_3">>,
     <<359, 363, "record_axis_condition_4">>,
     <<364, 368, "record_axis_condition_5">>,
     <<369, 373, "record_axis_condition_6">>,
     <<374, 378, "record_axis_condition_7">>,
     <<379, 383, "record_axis_condition_8">>,
     <<384, 388, "record_axis_condition_9">>,
     <<389, 393, "record_axis_condition_10">>,
     <<394, 398, "record_axis_condition_11">>,
     <<399, 403, "record_axis_condition_12">>,
     <<404, 408, "record_axis_condition_13">>,
     <<409, 413, "record_axis_condition_14">>,
     <<414, 418, "record_axis_condition_15">>,
     <<419, 423, "record_axis_condition_16">>,
     <<424, 428, "record_axis_condition_17">>,
     <<429, 433, "record_axis_condition_18">>,
     <<434, 438, "record_axis_condition_19">>,
     <<439, 443, "record_axis_condition_20">>,
     <<444, 447, "reserved_positions">>,
     <<448, 448, "race_imputation_flag">>,
     <<449, 449, "reserved_positions">>,
     <<450, 450, "race_recode_6">>,
     <<451, 483, "reserved_positions">>,
     <<484, 486, "hispanic_origin">>,
     <<487, 488, "hispanic_origin_race_recode">>,
     <<489, 490, "race_recode_40">>,
     <<491, 805, "reserved_positions">>,
     <<806, 809, "decedents_usual_occindu_occupation_4_digit_code">>,
     <<810, 811, "decedents_usual_occindu_occupation_recode">>,
     <<812, 815, "decedents_usual_occindu_industry_4_digit_code">>,
     <<816, 817, "decedents_usual_occindu_industry_recode">> >>

record_type_mapping ==
  ( 1 :> VStr("RESIDENTS")
  @@ 2 :> VStr("NONRESIDENTS") )

resident_status_mapping ==
  ( 1 :> VStr("RESIDENT")
  @@ 2 :> VStr("INTRASTATE_NONRESIDENT")
  @@ 3 :> VStr("INTERSTATE_NONRESIDENT")
  @@ 4 :> VStr("FOREIGN_RESIDENT") )

education_mapping ==
  ( 1 :> VStr("8TH_GRADE_OR_LESS")
  @@ 2 :> VStr("9_12TH_GRADE_NO_DIPLOMA")
  @@ 3 :> VStr("HIGH_SCHOOL_GRADUATE_OR_GED_COMPLETED")
  @@ 4 :> VStr("SOME_COLLEGE_CREDIT_NO_DEGREE")
  @@ 5 :> VStr("ASSOCIATE_DEGREE")
  @@ 6 :> VStr("BACHELOR_DEGREE")
  @@ 7 :> VStr("MASTER_DEGREE")
  @@ 8 :> VStr("DOCTORATE_DEGREE_OR_PROFESSIONAL_DEGREE")
  @@ 9 :> VNone )

education_reporting_flag_mapping ==
  ( 1 :> VStr("2003_REVISION")
  @@ 2 :> VStr("NO_EDUCATION_ITEM_ON_CERTIFICATE") )

sex_mapping ==
  ( <<"M">> :> VStr("M")
  @@ <<"F">> :> VStr("F") )

place_of_death_mapping ==
  ( 1 :> VStr("HOSPITAL_CLINIC_OR_MEDICAL_CENTER_INPATIENT")
  @@ 2 :> VStr("HOSPITAL_CLINIC_OR_MEDICAL_CENTER_OUTPATIENT_OR_ER")
  @@ 3 :> VStr("HOSPITAL_CLINIC_OR_MEDICAL_CENTER_DEAD_ON_ARRIVAL")
  @@ 4 :> VStr("DECEDENT_S_HOME")
  @@ 5 :> VStr("HOSPICE_FACILITY")
  @@ 6 :> VStr("NURSING_HOME_LONG_TERM_CARE")
  @@ 7 :> VStr("OTHER")
  @@ 9 :> VNone )

marital_status_mapping ==
  ( <<"S">> :> VStr("NEVER_MARRIED_SINGLE")
  @@ <<"M">> :> VStr("MARRIED")
  @@ <<"W">> :> VStr("WIDOWED")
  @@ <<"D">> :> VStr("DIVORCED")
  @@ <<"U">> :> VNone )

day_of_week_of_death_mapping ==
  ( 1 :> VStr("SUNDAY")
  @@ 2 :> VStr("MONDAY")
  @@ 3 :> VStr("TUESDAY")
  @@ 4 :> VStr("WEDNESDAY")
  @@ 5 :> VStr("THURSDAY")
  @@ 6 :> VStr("FRIDAY")
  @@ 7 :> VStr("SATURDAY")
  @@ 9 :> VNone )

injury_at_work_mapping ==
  ( <<"Y">> :> VBool(TRUE)
  @@ <<"N">> :> VBool(FALSE)
  @@ <<"U">> :> VNone )

manner_of_death_mapping ==
  ( 1 :> VStr("ACCIDENT")
  @@ 2 :> VStr("SUICIDE")
  @@ 3 :> VStr("HOMICIDE")
  @@ 4 :> VStr("PENDING_INVESTIGATION")
  @@ 5 :> VStr("COULD_NOT_DETERMINE")
  @@ 6 :> VStr("SELF_INFLICTED")
  @@ 7 :> VStr("NATURAL") )

method_of_disposition_mapping ==
  ( <<"B">> :> VStr("BURIAL")
  @@ <<"C">> :> VStr("CREMATION")
  @@ <<"D">> :> VStr("DONATION")
  @@ <<"E">> :> VStr("ENTOMBMENT")
  @@ <<"O">> :> VStr("OTHER")
  @@ <<"R">> :> VStr("REMOVAL_FROM_JURISDICTION")
  @@ <<"U">> :> VNone )

autopsy_mapping ==
  ( <<"Y">> :> VBool(TRUE)
  @@ <<"N">> :> VBool(FALSE)
  @@ <<"U">> :> VNone )

activity_code_mapping ==
  ( 0 :> VStr("ENGAGED_IN_SPORTS")
  @@ 1 :> VStr("ENGAGED_IN_LEISURE_ACTIVITY")
  @@ 2 :> VStr("WORKING_FOR_INCOME")
  @@ 3 :> VStr("ENGAGED_IN_OTHER_TYPES_OF_WORK")
  @@ 4 :> VStr("VITAL_ACTIVITIES")
  @@ 8 :> VNone
  @@ 9 :> VNone )

place_of_injury_mapping ==
  ( 0 :> VStr("HOME")
  @@ 1 :> VStr("RESIDENTIAL_INSTITUTION")
  @@ 2 :> VStr("INSTITUTION_OR_PUBLIC_ADMINISTRATIVE_AREA")
  @@ 3 :> VStr("SPORTS_AND_ATTHLETICS_AREA")
  @@ 4 :> VStr("STREET_AND_HIGHWAY")
  @@ 5 :> VStr("TRADE_AND_SERVICE_AREA")
  @@ 6 :> VStr("INDUSTRIAL_AND_CONSTRUCTION_AREA")
  @@ 7 :> VStr("FARM")
  @@ 8 :> VNone
  @@ 9 :> VNone )

race_recode_6_mapping ==
  ( 1 :> VStr("WHITE")
  @@ 2 :> VStr("BLACK")
  @@ 3 :> VStr("AMERICAN_INDIAN_AND_ALASKA_NATIVE")
  @@ 4 :> VStr("ASIAN")
  @@ 5 :> VStr("NATIVE_HAWAIIAN_AND_OTHER_PACIFIC_ISLANDER")
  @@ 6 :> VStr("MORE_THAN_ONE_R") )

hispanic_origin_mapping ==
  << <<100, 199, VStr("NON_HISPANIC")>>,
     <<200, 209, VStr("SPANIARD")>>,
     <<210, 219, VStr("MEXICAN")>>,
     <<220, 230, VStr("CENTRAL_AMERICAN")>>,
     <<231, 249, VStr("SOUTH_AMERICAN")>>,
     <<250, 259, VStr("LATIN_AMERICAN")>>,
     <<260, 269, VStr("PUERTO_RICAN")>>,
     <<270, 274, VStr("CUBAN")>>,
     <<275, 279, VStr("DOMINICAN")>>,
     <<280, 299, VStr("OTHER_HISPANIC")>>,
     <<996, 999, VNone>> >>

hispanic_origin_race_recode_mapping ==
  ( 1 :> VStr("MEXICAN")
  @@ 2 :> VStr("PUERTO_RICAN")
  @@ 3 :> VStr("CUBAN")
  @@ 4 :> VStr("DOMINICAN")
  @@ 5 :> VStr("CENTRAL_AMERICAN")
  @@ 6 :> VStr("SOUTH_AMERICAN")
  @@ 7 :> VStr("OTHER_HISPANIC")
  @@ 8 :> VStr("NON_HISPANIC_WHITE")
  @@ 9 :> VStr("NON_HISPANIC_BLACK")
  @@ 10 :> VStr("NON_HISPANIC_AMERICAN_INDIAN_AND_ALASKA_NATIVE")
  @@ 11 :> VStr("NON_HISPANIC_ASIAN")
  @@ 12 :> VStr("NON_HISPANIC_NATIVE_HAWAIIAN_AND_OTHER_PACIFIC_ISLANDER")
  @@ 13 :> VStr("NON_HISPANIC_MORE_THAN_ONE_R")
  @@ 14 :> VNone )

race_recode_40_mapping ==
  ( 1 :> VLabel(<<"WHITE">>)
  @@ 2 :> VLabel(<<"BLACK">>)
  @@ 3 :> VLabel(<<"AIAN">>)
  @@ 4 :> VLabel(<<"ASIAN", "INDIAN">>)
  @@ 5 :> VLabel(<<"CHINESE">>)
  @@ 6 :> VLabel(<<"FILIPINO">>)
  @@ 7 :> VLabel(<<"JAPANESE">>)
  @@ 8 :> VLabel(<<"KOREAN">>)
  @@ 9 :> VLabel(<<"VIETNAMESE">>)
  @@ 10 :> VLabel(<<"OTHER", "ASIAN">>)
  @@ 11 :> VLabel(<<"HAWAIIAN">>)
  @@ 12 :> VLabel(<<"GUAMANIAN">>)
  @@ 13 :> VLabel(<<"SAMOAN">>)
  @@ 14 :> VLabel(<<"OTHER", "PACIFIC", "ISLANDER">>)
  @@ 15 :> VLabel(<<"BLACK", "WHITE">>)
  @@ 16 :> VLabel(<<"BLACK", "AIAN">>)
  @@ 17 :> VLabel(<<"BLACK", "ASIAN">>)
  @@ 18 :> VLabel(<<"BLACK", "NHOPI">>)
  @@ 19 :> VLabel(<<"AIAN", "WHITE">>)
  @@ 20 :> VLabel(<<"AIAN", "ASIAN">>)
  @@ 21 :> VLabel(<<"AIAN", "NHOPI">>)
  @@ 22 :> VLabel(<<"ASIAN", "WHITE">>)
  @@ 23 :> VLabel(<<"ASIAN", "NHOPI">>)
  @@ 24 :> VLabel(<<"NHOPI", "WHITE">>)
  @@ 25 :> VLabel(<<"BLACK", "AIAN", "WHITE">>)
  @@ 26 :> VLabel(<<"BLACK", "AIAN", "ASIAN">>)
  @@ 27 :> VLabel(<<"BLACK", "AIAN", "NHOPI">>)
  @@ 28 :> VLabel(<<"BLACK", "ASIAN", "WHITE">>)
  @@ 29 :> VLabel(<<"BLACK", "ASIAN", "NHOPI">>)
  @@ 30 :> VLabel(<<"BLACK", "NHOPI", "WHITE">>)
  @@ 31 :> VLabel(<<"AIAN", "ASIAN", "WHITE">>)
  @@ 32 :> VLabel(<<"AIAN", "NHOPI", "WHITE">>)
  @@ 33 :> VLabel(<<"AIAN", "ASIAN", "NHOPI">>)
  @@ 34 :> VLabel(<<"ASIAN", "NHOPI", "WHITE">>)
  @@ 35 :> VLabel(<<"BLACK", "AIAN", "ASIAN", "WHITE">>)
  @@ 36 :> VLabel(<<"BLACK", "AIAN", "ASIAN", "NHOPI">>)
  @@ 37 :> VLabel(<<"BLACK", "AIAN", "NHOPI", "WHITE">>)
  @@ 38 :> VLabel(<<"BLACK", "ASIAN", "NHOPI", "WHITE">>)
  @@ 39 :> VLabel(<<"AIAN", "ASIAN", "NHOPI", "WHITE">>)
  @@ 40 :> VLabel(<<"BLACK", "AIAN", "ASIAN", "NHOPI", "WHITE">>) )

decedent_occupation_recode_mapping ==
  ( 1 :> VStr("MANAGEMENT")
  @@ 2 :> VStr("BUSINESS_AND_FINANCIAL_OPERATIONS")
  @@ 3 :> VStr("COMPUTATIONAL_AND_MATHEMATICAL")
  @@ 4 :> VStr("ARCHITECTURE_AND_ENGINEERING")
  @@ 5 :> VStr("LIFE_PHYSICAL_AND_SOCIAL_SCIENCE")
  @@ 6 :> VStr("COMMUNITY_AND_SOCIAL_SERVICES")
  @@ 7 :> VStr("LEGAL")
  @@ 8 :> VStr("EDUCATION_TRAINING_AND_LIBRARY")
  @@ 9 :> VStr("ARTS_DESIGN_ENTERTAINMENT_SPORTS_AND_MEDIA")
  @@ 10 :> VStr("HEALTHCARE_PRACTITIONERS_AND_TECHNICAL")
  @@ 11 :> VStr("HEALTHCARE_SUPPORT")
  @@ 12 :> VStr("PROTECTIVE_SERVICE")
  @@ 13 :> VStr("FOOD_PREPARATION_AND_SERVING")
  @@ 14 :> VStr("BUILDING_AND_GROUNDS_CLEANING_AND_MAINTENANCE")
  @@ 15 :> VStr("PERSONAL_CARE_AND_SERVICE")
  @@ 16 :> VStr("SALES_AND_RELATED")
  @@ 17 :> VStr("OFFICE_AND_ADMINISTRATIVE_SUPPORT")
  @@ 18 :> VStr("FARMING_FISHING_AND_FORESTRY")
  @@ 19 :> VStr("CONSTRUCTION_AND_EXTRACTION")
  @@ 20 :> VStr("INSTALLATION_MAINTENANCE_AND_REPAIR")
  @@ 21 :> VStr("PRODUCTION")
  @@ 22 :> VStr("TRANSPORTATION_AND_MATERIAL_MOVING")
  @@ 24 :> VStr("MILITARY")
  @@ 25 :> VNone
  @@ 26 :> VStr("HOUSEWIFE") )

decedent_industry_recode_mapping ==
  ( 1 :> VStr("AGRICULTURE_FORESTRY_FISHING_AND_HUNTING")
  @@ 2 :> VStr("MINING")
  @@ 3 :> VStr("UTILITIES")
  @@ 4 :> VStr("CONSTRUCTION")
  @@ 5 :> VStr("MANUFACTURING")
  @@ 6 :> VStr("WHOLESALE_TRADE")
  @@ 7 :> VStr("RETAIL_TRADE")
  @@ 8 :> VStr("TRANSPORTATION_AND_WAREHOUSING")
  @@ 9 :> VStr("INFORMATION")
  @@ 10 :> VStr("FINANCE_AND_INSURANCE")
  @@ 11 :> VStr("REAL_ESTATE_RENTAL_AND_LEASING")
  @@ 12 :> VStr("PROFESSIONAL_SCIENTIFIC_AND_TECHNICAL_SERVICES")
  @@ 13 :> VStr("MANAGEMENT_OF_COMPANIES_AND_ENTERPRISES")
  @@ 14 :> VStr("ADMINISTRATIVE_AND_SUPPORT_AND_WASTE_MANAGEMENT_AND_REMEDIATION_SERVICES")
  @@ 15 :> VStr("EDUCATIONAL_SERVICES")
  @@ 16 :> VStr("HEALTH_CARE_AND_SOCIAL_ASSISTANCE")
  @@ 17 :> VStr("ARTS_ENTERTAINMENT_AND_RECREATION")
  @@ 18 :> VStr("ACCOMMODATION_AND_FOOD_SERVICES")
  @@ 19 :> VStr("OTHER_SERVICES_EXCEPT_PUBLIC_ADMINISTRATION")
  @@ 20 :> VStr("PUBLIC_ADMINISTRATION")
  @@ 22 :> VStr("MILITARY")
  @@ 23 :> VNone )

-----------------------------------------------------------------------------
(* Variants of the code that differ from it in one decision each.  The      *)
(* properties at the end of the module hold of the code and fail of these.  *)

\* future results taken in the order the futures completed, as a loop over
\* concurrent.futures.as_completed would take them
collect_results_as_completed(fr, order) == [j \in 1..Len(fr) |-> fr[order[j]]]

\* process_sex without its `if value == ""` case
process_sex_without_blank_case(value) ==
  LET mapped == get(sex_mapping, value)
  IN IF Truthy(mapped) THEN Ok(<<"sex", mapped>>)
     ELSE Err(InvalidValue("sex", value))

\* process_cause_recode_39 rejecting a code outside 1..42, as
\* process_month_of_death rejects a month outside 1..12
process_cause_recode_39_rejecting(value) ==
  IF value = <<>> THEN Ok(<<"cause_recode_39", VNone>>)
  ELSE LET r == try_parse_int(value) IN
    IF r.tag = "Err" THEN r
    ELSE LET v == r.val
         IN IF 1 <= v /\ v <= 42 THEN Ok(<<"cause_recode_39", VInt(v)>>)
            ELSE Err(InvalidValue("cause_recode_39", str(v)))

\* process_injury_at_work testing only `if mapped:`, as process_manner_of_death
\* does
process_injury_at_work_truthy_only(value) ==
  IF value = <<>> THEN Ok(<<"injury_at_work", VNone>>)
  ELSE LET mapped == get(injury_at_work_mapping, value)
       IN IF Truthy(mapped) THEN Ok(<<"injury_at_work", mapped>>)
          ELSE Err(InvalidValue("injury_at_work", value))

-----------------------------------------------------------------------------
(* Field decoders (main.py 527-1198).  Each returns Ok(<<key, value>>),     *)
(* Err(message) or, where the code lets an exception escape, Raise(name).   *)

process_record_type(value) ==
  IF value = <<>> THEN Ok(<<"record_type", VNone>>)
  ELSE LET r == try_parse_int(value) IN
    IF r.tag = "Err" THEN r
    ELSE LET v == r.val
             mapped == get(record_type_mapping, v)
         IN IF Truthy(mapped) THEN Ok(<<"record_type", mapped>>)
            ELSE Err(InvalidValue("record_type", str(v)))

process_resident_status(value) ==
  IF value = <<>> THEN Ok(<<"resident_status", VNone>>)
  ELSE LET r == try_parse_int(value) IN
    IF r.tag = "Err" THEN r
    ELSE LET v == r.val
             mapped == get(resident_status_mapping, v)
         IN IF Truthy(mapped) THEN Ok(<<"resident_status", mapped>>)
            ELSE Err(InvalidValue("resident_status", str(v)))

process_education(value) ==
  IF value = <<>> THEN Ok(<<"education", VNone>>)
  ELSE LET r == try_parse_int(value) IN
    IF r.tag = "Err" THEN r
    ELSE LET v == r.val
             mapped == get(education_mapping, v)
         IN IF Truthy(mapped) \/ v \in DOMAIN education_mapping
            THEN Ok(<<"education", mapped>>)
            ELSE Err(InvalidValue("education", str(v)))

process_education_reporting_flag(value) ==
  IF value = <<>> THEN Ok(<<"education_reporting_flag", VNone>>)
  ELSE LET r == try_parse_int(value) IN
    IF r.tag = "Err" THEN r
    ELSE LET v == r.val
             mapped == get(education_reporting_flag_mapping, v)
         IN IF Truthy(mapped) THEN Ok(<<"education_reporting_flag", mapped>>)
            ELSE Err(InvalidValue("education_reporting_flag", str(v)))

process_month_of_death(value) ==
  IF value = <<>> THEN Ok(<<"month_of_death", VNone>>)
  ELSE LET r == try_parse_int(value) IN
    IF r.tag = "Err" THEN r
    ELSE LET v == r.val
         IN IF 1 <= v /\ v <= 12 THEN Ok(<<"month_of_death", VInt(v)>>)
            ELSE Err(InvalidValue("month_of_death", str(v)))

process_sex(value) ==
  IF value = <<>> THEN Ok(<<"sex", VNone>>)
  ELSE LET mapped == get(sex_mapping, value)
       IN IF Truthy(mapped) THEN Ok(<<"sex", mapped>>)
          ELSE Err(InvalidValue("sex", value))

\* Durations are counted in units of MS_PER_UNIT milliseconds: TLC integers are
\* 32-bit and 999 * YEARS_AS_MS in milliseconds does not fit.  Every product the
\* decoders form is a multiple of MINUTES_AS_MS, so nothing is rounded.
MS_PER_UNIT == 60000
MINUTES_AS_MS == 60000 \div MS_PER_UNIT
HOURS_AS_MS == 60 * MINUTES_AS_MS
DAYS_AS_MS == 24 * HOURS_AS_MS
MONTHS_AS_MS == 30 * DAYS_AS_MS
\* variant: a year of twelve 30-day months
YEARS_AS_MS_of_12_months == 12 * MONTHS_AS_MS
YEARS_AS_MS == 365 * DAYS_AS_MS

\* the dict literal of lines 635-641
detail_age_mult ==
  ( 1 :> YEARS_AS_MS @@ 2 :> MONTHS_AS_MS @@ 4 :> DAYS_AS_MS @@ 5 :> HOURS_AS_MS
    @@ 6 :> MINUTES_AS_MS )

process_detail_age(value) ==
  IF value = <<>> THEN Ok(<<"detail_age", VNone>>)
  ELSE LET r1 == try_parse_int(SubSeq(value, 1, 1))
           r2 == try_parse_int(SubSeq(value, 2, Len(value)))
       IN IF r1.tag = "Err" THEN r1
          ELSE IF r2.tag = "Err" THEN r2
          ELSE LET based_on == r1.val
                   count == r2.val
               IN IF 1 <= based_on /\ based_on <= 6
                  THEN IF based_on \in DOMAIN detail_age_mult
                       THEN Ok(<<"detail_age", VInt(count * detail_age_mult[based_on])>>)
                       ELSE Raise("KeyError")
                  ELSE Ok(<<"detail_age", VNone>>)

process_age_substitution_flag(value) ==
  IF value = <<>> THEN Ok(<<"age_substitution_flag", VBool(FALSE)>>)
  ELSE LET r == try_parse_int(value) IN
    IF r.tag = "Err" THEN r
    ELSE IF r.val = 1 THEN Ok(<<"age_substitution_flag", VBool(TRUE)>>)
    ELSE Err(InvalidValue("age_substitution_flag", value))

process_age_recode_52(value) ==
  IF value = <<>> THEN Ok(<<"age_recode_52", VNone>>)
  ELSE LET r == try_parse_int(value) IN
    IF r.tag = "Err" THEN r
    ELSE LET v == r.val IN
      IF 1 <= v /\ v <= 51 THEN
        Ok(<<"age_recode_52",
             IF v = 1 THEN VTuple(0, HOURS_AS_MS)
             ELSE IF v = 2 THEN VTuple(HOURS_AS_MS, 23 * HOURS_AS_MS)
             ELSE IF 3 <= v /\ v <= 9 THEN VTuple((v - 2) * DAYS_AS_MS, (v - 2) * DAYS_AS_MS)
             ELSE IF 10 <= v /\ v <= 11
               THEN VTuple((14 + 7 * (v - 10)) * DAYS_AS_MS,
                           (13 + 7 * ((v - 10) + 1)) * DAYS_AS_MS)
             ELSE IF 12 <= v /\ v <= 22
               THEN VTuple((v - 11) * MONTHS_AS_MS, (v - 11) * MONTHS_AS_MS)
             ELSE IF 23 <= v /\ v <= 26
               THEN VTuple((v - 22) * YEARS_AS_MS, (v - 22) * YEARS_AS_MS)
             ELSE IF 27 <= v /\ v <= 50
               THEN VTuple((5 + 5 * (v - 27)) * YEARS_AS_MS,
                           (4 + 5 * ((v - 27) + 1)) * YEARS_AS_MS)
             ELSE VTuple(125 * YEARS_AS_MS, 999 * YEARS_AS_MS)>>)
      ELSE IF v = 52 THEN Ok(<<"age_recode_52", VNone>>)
      ELSE Err(InvalidValue("age_recode_52", str(v)))

process_age_recode_27(value) ==
  IF value = <<>> THEN Ok(<<"age_recode_27", VNone>>)
  ELSE LET r == try_parse_int(value) IN
    IF r.tag = "Err" THEN r
    ELSE LET v == r.val IN
      IF 1 <= v /\ v <= 26 THEN
        Ok(<<"age_recode_27",
             IF v = 1 THEN VTuple(0, 1 * MONTHS_AS_MS)
             ELSE IF v = 2 THEN VTuple(1 * MONTHS_AS_MS, 11 * MONTHS_AS_MS)
             ELSE IF 3 <= v /\ v <= 6
               THEN VTuple((v - 2) * YEARS_AS_MS, (v - 2) * YEARS_AS_MS)
             ELSE IF 7 <= v /\ v <= 25
               THEN VTuple((5 + 5 * (v - 7)) * YEARS_AS_MS,
                           (4 + 5 * ((v - 7) + 1)) * YEARS_AS_MS)
             ELSE VTuple(100 * YEARS_AS_MS, 999 * YEARS_AS_MS)>>)
      ELSE IF v = 27 THEN Ok(<<"age_recode_27", VNone>>)
      ELSE Err(InvalidValue("age_recode_27", str(v)))

process_age_recode_12(value) ==
  IF value = <<>> THEN Ok(<<"age_recode_12", VNone>>)
  ELSE LET r == try_parse_int(value) IN
    IF r.tag = "Err" THEN r
    ELSE LET v == r.val IN
      IF 1 <= v /\ v <= 11 THEN
        Ok(<<"age_recode_12",
             IF v = 1 THEN VTuple(0, 11 * MONTHS_AS_MS)
             ELSE IF v = 2 THEN VTuple(1 * YEARS_AS_MS, 4 * YEARS_AS_MS)
             ELSE IF 3 <= v /\ v <= 10
               THEN VTuple((5 + 10 * (v - 3)) * YEARS_AS_MS,
                           (4 + 10 * ((v - 3) + 1)) * YEARS_AS_MS)
             ELSE VTuple(85 * YEARS_AS_MS, 999 * YEARS_AS_MS)>>)
      ELSE IF v = 12 THEN Ok(<<"age_recode_12", VNone>>)
      ELSE Err(InvalidValue("age_recode_12", str(v)))

\* variant: process_infant_age_recode_22 with the day codes of
\* process_age_recode_52 (3..9 one day each, 10..11 the weeks)
process_infant_age_recode_22_days_as_52(value) ==
  IF value = <<>> THEN Ok(<<"infant_age_recode_22", VNone>>)
  ELSE LET r == try_parse_int(value) IN
    IF r.tag = "Err" THEN r
    ELSE LET v == r.val IN
      IF 1 <= v /\ v <= 22 THEN
        Ok(<<"infant_age_recode_22",
             IF v = 1 THEN VTuple(0, 59 * MINUTES_AS_MS)
             ELSE IF v = 2 THEN VTuple(1 * HOURS_AS_MS, 23 * HOURS_AS_MS)
             ELSE IF 3 <= v /\ v <= 9
               THEN VTuple((v - 2) * DAYS_AS_MS, (v - 2) * DAYS_AS_MS)
             ELSE IF 10 <= v /\ v <= 11
               THEN VTuple((14 + 7 * (v - 10)) * DAYS_AS_MS,
                           (13 + 7 * ((v - 10) + 1)) * DAYS_AS_MS)
             ELSE VTuple((v - 11) * MONTHS_AS_MS, (v - 11) * MONTHS_AS_MS)>>)
      ELSE Err(InvalidValue("infant_age_recode_22", str(v)))

process_infant_age_recode_22(value) ==
  IF value = <<>> THEN Ok(<<"infant_age_recode_22", VNone>>)
  ELSE LET r == try_parse_int(value) IN
    IF r.tag = "Err" THEN r
    ELSE LET v == r.val IN
      IF 1 <= v /\ v <= 22 THEN
        Ok(<<"infant_age_recode_22",
             IF v = 1 THEN VTuple(0, 59 * MINUTES_AS_MS)
             ELSE IF v = 2 THEN VTuple(1 * HOURS_AS_MS, 23 * HOURS_AS_MS)
             ELSE IF 3 <= v /\ v <= 8
               THEN VTuple((v - 2) * DAYS_AS_MS, (v - 2) * DAYS_AS_MS)
             ELSE IF 9 <= v /\ v <= 11
               THEN VTuple((7 + 7 * (v - 9)) * DAYS_AS_MS,
                           (6 + 7 * ((v - 9) + 1)) * DAYS_AS_MS)
             ELSE VTuple((v - 11) * MONTHS_AS_MS, (v - 11) * MONTHS_AS_MS)>>)
      ELSE Err(InvalidValue("infant_age_recode_22", str(v)))

process_place_of_death(value) ==
  IF value = <<>> THEN Ok(<<"place_of_death", VNone>>)
  ELSE LET r == try_parse_int(value) IN
    IF r.tag = "Err" THEN r
    ELSE LET v == r.val
             mapped == get(place_of_death_mapping, v)
         IN IF Truthy(mapped) \/ v \in DOMAIN place_of_death_mapping
            THEN Ok(<<"place_of_death", mapped>>)
            ELSE Err(InvalidValue("place_of_death_and_decedents_status", value))

process_marital_status(value) ==
  IF value = <<>> THEN Ok(<<"marital_status", VNone>>)
  ELSE LET mapped == get(marital_status_mapping, value)
       IN IF Truthy(mapped) \/ value \in DOMAIN marital_status_mapping
          THEN Ok(<<"marital_status", mapped>>)
          ELSE Err(InvalidValue("marital_status", value))

process_day_of_week_of_death(value) ==
  IF value = <<>> THEN Ok(<<"day_of_week_of_death", VNone>>)
  ELSE LET r == try_parse_int(value) IN
    IF r.tag = "Err" THEN r
    ELSE LET v == r.val
             mapped == get(day_of_week_of_death_mapping, v)
         IN IF Truthy(mapped) \/ v \in DOMAIN day_of_week_of_death_mapping
            THEN Ok(<<"day_of_week_of_death", mapped>>)
            ELSE Err(InvalidValue("day_of_week_of_death", value))

process_injury_at_work(value) ==
  IF value = <<>> THEN Ok(<<"injury_at_work", VNone>>)
  ELSE LET mapped == get(injury_at_work_mapping, value)
       IN IF Truthy(mapped) \/ value \in DOMAIN injury_at_work_mapping
          THEN Ok(<<"injury_at_work", mapped>>)
          ELSE Err(InvalidValue("injury_at_work", value))

process_manner_of_death(value) ==
  IF value = <<>> THEN Ok(<<"manner_of_death", VNone>>)
  ELSE LET r == try_parse_int(value) IN
    IF r.tag = "Err" THEN r
    ELSE LET v == r.val
             mapped == get(manner_of_death_mapping, v)
         IN IF Truthy(mapped) THEN Ok(<<"manner_of_death", mapped>>)
            ELSE Err(InvalidValue("manner_of_death", value))

process_method_of_disposition(value) ==
  IF value = <<>> THEN Ok(<<"method_of_disposition", VNone>>)
  ELSE LET mapped == get(method_of_disposition_mapping, value)
       IN IF Truthy(mapped) \/ value \in DOMAIN method_of_disposition_mapping
          THEN Ok(<<"method_of_disposition", mapped>>)
          ELSE Err(InvalidValue("method_of_disposition", value))

process_autopsy(value) ==
  IF value = <<>> THEN Ok(<<"autopsy", VNone>>)
  ELSE LET mapped == get(autopsy_mapping, value)
       IN IF Truthy(mapped) \/ value \in DOMAIN autopsy_mapping
          THEN Ok(<<"autopsy", mapped>>)
          ELSE Err(InvalidValue("autopsy", value))

process_activity_code(value) ==
  IF value = <<>> THEN Ok(<<"activity_code", VNone>>)
  ELSE LET r == try_parse_int(value) IN
    IF r.tag = "Err" THEN r
    ELSE LET v == r.val
             mapped == get(activity_code_mapping, v)
         IN IF Truthy(mapped) \/ v \in DOMAIN activity_code_mapping
            THEN Ok(<<"activity_code", mapped>>)
            ELSE Err(InvalidValue("activity_code", value))

process_place_of_injury(value) ==
  IF value = <<>> THEN Ok(<<"place_of_injury", VNone>>)
  ELSE LET r == try_parse_int(value) IN
    IF r.tag = "Err" THEN r
    ELSE LET v == r.val
             mapped == get(place_of_injury_mapping, v)
         IN IF Truthy(mapped) \/ v \in DOMAIN place_of_injury_mapping
            THEN Ok(<<"place_of_injury", mapped>>)
            ELSE Err(InvalidValue("place_of_injury", value))

process_icd_code(value) ==
  IF value = <<>> THEN Ok(<<"icd_code", VNone>>) ELSE Ok(<<"icd_code", VText(value)>>)

process_cause_recode_358(value) ==
  IF value = <<>> THEN Ok(<<"cause_recode_358", VNone>>)
  ELSE Ok(<<"cause_recode_358", VText(value)>>)

process_cause_recode_113(value) ==
  IF value = <<>> THEN Ok(<<"cause_recode_113", VNone>>)
  ELSE Ok(<<"cause_recode_113", VText(value)>>)

process_infant_cause_recode_130(value) ==
  IF value = <<>> THEN Ok(<<"infant_cause_recode_130", VNone>>)
  ELSE Ok(<<"infant_cause_recode_130", VText(value)>>)

process_cause_recode_39(value) ==
  IF value = <<>> THEN Ok(<<"cause_recode_39", VNone>>)
  ELSE LET r == try_parse_int(value) IN
    IF r.tag = "Err" THEN r
    ELSE LET v == r.val
         IN IF 1 <= v /\ v <= 42 THEN Ok(<<"cause_recode_39", VInt(v)>>)
            ELSE Ok(<<"cause_recode_39", VNone>>)

process_number_of_entity_axis_conditions(value) ==
  IF value = <<>> THEN Ok(<<"number_of_entity_axis_conditions", VNone>>)
  ELSE LET r == try_parse_int(value) IN
    IF r.tag = "Err" THEN r
    ELSE LET v == r.val
         IN IF 0 <= v /\ v <= 20 THEN Ok(<<"number_of_entity_axis_conditions", VInt(v)>>)
            ELSE Err(InvalidValue("number_of_entity_axis_conditions", str(v)))

\* f"entity_axis_condition_{n}"
entity_axis_condition_key(n) == "entity_axis_condition_" \o ToString(n)

\* variant: process_entity_axis_condition taking the certificate line from the
\* first character, the layout's part/line number
process_entity_axis_condition_line_of_part(n, value) ==
  IF value = <<>> THEN Ok(<<entity_axis_condition_key(n), VNone>>)
  ELSE LET r1 == try_parse_int(<<value[1]>>) IN
    IF r1.tag = "Err" THEN r1
    ELSE IF Len(value) < 2 THEN Raise("IndexError")
    ELSE LET part_line == r1.val
             part == IF part_line <= 5 THEN "PART_I" ELSE "PART_II"
             r2 == try_parse_int(<<value[2]>>)
         IN IF r2.tag = "Err" THEN r2
            ELSE Ok(<<entity_axis_condition_key(n),
                      VDict(VStr(part), VInt(part_line),
                            VText(SubSeq(value, 3, Len(value))))>>)

process_entity_axis_condition(n, value) ==
  IF value = <<>> THEN Ok(<<entity_axis_condition_key(n), VNone>>)
  ELSE LET r1 == try_parse_int(<<value[1]>>) IN
    IF r1.tag = "Err" THEN r1
    ELSE IF Len(value) < 2 THEN Raise("IndexError")
    ELSE LET part_line == r1.val
             part == IF part_line <= 5 THEN "PART_I" ELSE "PART_II"
             r2 == try_parse_int(<<value[2]>>)
         IN IF r2.tag = "Err" THEN r2
            ELSE Ok(<<entity_axis_condition_key(n),
                      VDict(VStr(part), VInt(r2.val),
                            VText(SubSeq(value, 3, Len(value))))>>)

process_number_of_record_axis_conditions(value) ==
  IF value = <<>> THEN Ok(<<"number_of_record_axis_conditions", VNone>>)
  ELSE LET r == try_parse_int(value) IN
    IF r.tag = "Err" THEN r
    ELSE LET v == r.val
         IN IF 0 <= v /\ v <= 20 THEN Ok(<<"number_of_record_axis_conditions", VInt(v)>>)
            ELSE Err(InvalidValue("number_of_record_axis_conditions", str(v)))

\* f"record_axis_condition_{n}"
record_axis_condition_key(n) == "record_axis_condition_" \o ToString(n)

process_record_axis_condition(n, value) ==
  IF value = <<>> THEN Ok(<<record_axis_condition_key(n), VNone>>)
  ELSE Ok(<<record_axis_condition_key(n), VText(value)>>)

process_race_imputation_flag(value) ==
  IF value = <<>> THEN Ok(<<"race_imputation_flag", VBool(FALSE)>>)
  ELSE LET r == try_parse_int(value) IN
    IF r.tag = "Err" THEN r
    ELSE IF r.val = 1 \/ r.val = 2 THEN Ok(<<"race_imputation_flag", VBool(TRUE)>>)
    ELSE Err(InvalidValue("race_imputation_flag", str(r.val)))

process_race_recode_6(value) ==
  IF value = <<>> THEN Ok(<<"race_recode_6", VNone>>)
  ELSE LET r == try_parse_int(value) IN
    IF r.tag = "Err" THEN r
    ELSE LET v == r.val
             mapped == get(race_recode_6_mapping, v)
         IN IF Truthy(mapped) THEN Ok(<<"race_recode_6", mapped>>)
            ELSE Err(InvalidValue("race_recode_6", str(v)))

process_hispanic_origin(value) ==
  IF value = <<>> THEN Ok(<<"hispanic_origin", VNone>>)
  ELSE LET r == try_parse_int(value) IN
    IF r.tag = "Err" THEN r
    ELSE LET v == r.val
             mapped == get_in_range(hispanic_origin_mapping, v)
         IN IF Truthy(mapped) \/ range_keyed_dict_has_key(hispanic_origin_mapping, v)
            THEN Ok(<<"hispanic_origin", mapped>>)
            ELSE Err(InvalidValue("hispanic_origin", str(v)))

process_hispanic_origin_race_recode(value) ==
  IF value = <<>> THEN Ok(<<"hispanic_origin_race_recode", VNone>>)
  ELSE LET r == try_parse_int(value) IN
    IF r.tag = "Err" THEN r
    ELSE LET v == r.val
             mapped == get(hispanic_origin_race_recode_mapping, v)
         IN IF Truthy(mapped) \/ v \in DOMAIN hispanic_origin_race_recode_mapping
            THEN Ok(<<"hispanic_origin_race_recode", mapped>>)
            ELSE Err(InvalidValue("hispanic_origin_race_recode", str(v)))

\* mapped.split("_"): one label per "_"-separated word
split_label(mapped) == [i \in 1..Len(mapped.w) |-> VLabel(<<mapped.w[i]>>)]

\* lines 1141-1145: the loop assigns to its own variable `part`; the list
\* `parts` it iterates over is left as split() built it
rename_parts(parts) == parts

process_race_recode_40(value) ==
  IF value = <<>> THEN Ok(<<"race_recode_40", VNone>>)
  ELSE LET r == try_parse_int(value) IN
    IF r.tag = "Err" THEN r
    ELSE LET v == r.val
             mapped == get(race_recode_40_mapping, v)
         IN IF Truthy(mapped)
            THEN IF v <= 14 THEN Ok(<<"race_recode_40", VList(<<mapped>>)>>)
                 ELSE Ok(<<"race_recode_40", VList(rename_parts(split_label(mapped)))>>)
            ELSE Err(InvalidValue("race_recode_40", str(v)))

process_decedent_occupation_code(value) ==
  IF value = <<>> THEN Ok(<<"decedent_occupation_code", VNone>>)
  ELSE Ok(<<"decedent_occupation_code", VText(value)>>)

process_decedent_occupation_recode(value) ==
  IF value = <<>> THEN Ok(<<"decedent_occupation_recode", VNone>>)
  ELSE LET r == try_parse_int(value) IN
    IF r.tag = "Err" THEN r
    ELSE LET v == r.val
             mapped == get(decedent_occupation_recode_mapping, v)
         IN IF Truthy(mapped) \/ v \in DOMAIN decedent_occupation_recode_mapping
            THEN Ok(<<"decedent_occupation_recode", mapped>>)
            ELSE Err(InvalidValue("decedent_occupation_recode", str(v)))

process_decedent_industry_code(value) ==
  IF value = <<>> THEN Ok(<<"decedent_industry_code", VNone>>)
  ELSE Ok(<<"decedent_industry_code", VText(value)>>)

process_decedent_industry_recode(value) ==
  IF value = <<>> THEN Ok(<<"decedent_industry_recode", VNone>>)
  ELSE LET r == try_parse_int(value) IN
    IF r.tag = "Err" THEN r
    ELSE LET v == r.val
             mapped == get(decedent_industry_recode_mapping, v)
         IN IF Truthy(mapped) \/ v \in DOMAIN decedent_industry_recode_mapping
            THEN Ok(<<"decedent_industry_recode", mapped>>)
            ELSE Err(InvalidValue("decedent_industry_recode", str(v)))

-----------------------------------------------------------------------------
(* process_line (main.py 1201-1327) *)

\* line[a:b], clamped to the line's length as Python slicing is
slice(line, a, b) == SubSeq(line, a + 1, IF b < Len(line) THEN b ELSE Len(line))

\* field.startswith("entity_axis_condition_") / ("record_axis_condition_"): the
\* catalog's names with that prefix are the slots 1..20
entity_axis_fields == { entity_axis_condition_key(n) : n \in 1..20 }
record_axis_fields == { record_axis_condition_key(n) : n \in 1..20 }
is_entity_axis_field(field) == field \in entity_axis_fields
is_record_axis_field(field) == field \in record_axis_fields

\* int(field.split("_")[-1])
slot_of_entity(field) == CHOOSE n \in 1..20 : field = entity_axis_condition_key(n)
slot_of_record(field) == CHOOSE n \in 1..20 : field = record_axis_condition_key(n)

\* the names the if/elif chain of process_line has a branch for
has_branch(field) ==
  \/ field \in
       { "record_type", "resident_status", "education", "education_reporting_flag",
         "month_of_death", "sex", "detail_age", "age_substitution_flag",
         "age_recode_52", "age_recode_27", "age_recode_12", "infant_age_recode_22",
         "place_of_death_and_decedents_status", "marital_status",
         "day_of_week_of_death", "injury_at_work", "manner_of_death",
         "method_of_disposition", "autopsy", "activity_code", "place_of_injury",
         "icd_code", "cause_recode_358", "cause_recode_113",
         "infant_cause_recode_130", "cause_recode_39",
         "number_of_entity_axis_conditions", "number_of_record_axis_conditions",
         "race_imputation_flag", "race_recode_6", "hispanic_origin",
         "hispanic_origin_race_recode", "race_recode_40",
         "decedents_usual_occindu_occupation_4_digit_code",
         "decedents_usual_occindu_occupation_recode",
         "decedents_usual_occindu_industry_4_digit_code",
         "decedents_usual_occindu_industry_recode" }
  \/ is_entity_axis_field(field)
  \/ is_record_axis_field(field)

\* the decoder the chain calls for a field it has a branch for
decode(field, value) ==
  CASE field = "record_type" -> process_record_type(value)
    [] field = "resident_status" -> process_resident_status(value)
    [] field = "education" -> process_education(value)
    [] field = "education_reporting_flag" -> process_education_reporting_flag(value)
    [] field = "month_of_death" -> process_month_of_death(value)
    [] field = "sex" -> process_sex(value)
    [] field = "detail_age" -> process_detail_age(value)
    [] field = "age_substitution_flag" -> process_age_substitution_flag(value)
    [] field = "age_recode_52" -> process_age_recode_52(value)
    [] field = "age_recode_27" -> process_age_recode_27(value)
    [] field = "age_recode_12" -> process_age_recode_12(value)
    [] field = "infant_age_recode_22" -> process_infant_age_recode_22(value)
    [] field = "place_of_death_and_decedents_status" -> process_place_of_death(value)
    [] field = "marital_status" -> process_marital_status(value)
    [] field = "day_of_week_of_death" -> process_day_of_week_of_death(value)
    [] field = "injury_at_work" -> process_injury_at_work(value)
    [] field = "manner_of_death" -> process_manner_of_death(value)
    [] field = "method_of_disposition" -> process_method_of_disposition(value)
    [] field = "autopsy" -> process_autopsy(value)
    [] field = "activity_code" -> process_activity_code(value)
    [] field = "place_of_injury" -> process_place_of_injury(value)
    [] field = "icd_code" -> process_icd_code(value)
    [] field = "cause_recode_358" -> process_cause_recode_358(value)
    [] field = "cause_recode_113" -> process_cause_recode_113(value)
    [] field = "infant_cause_recode_130" -> process_infant_cause_recode_130(value)
    [] field = "cause_recode_39" -> process_cause_recode_39(value)
    [] field = "number_of_entity_axis_conditions" ->
         process_number_of_entity_axis_conditions(value)
    [] is_entity_axis_field(field) ->
         process_entity_axis_condition(slot_of_entity(field), value)
    [] field = "number_of_record_axis_conditions" ->
         process_number_of_record_axis_conditions(value)
    [] is_record_axis_field(field) ->
         process_record_axis_condition(slot_of_record(field), value)
    [] field = "race_imputation_flag" -> process_race_imputation_flag(value)
    [] field = "race_recode_6" -> process_race_recode_6(value)
    [] field = "hispanic_origin" -> process_hispanic_origin(value)
    [] field = "hispanic_origin_race_recode" -> process_hispanic_origin_race_recode(value)
    [] field = "race_recode_40" -> process_race_recode_40(value)
    [] field = "decedents_usual_occindu_occupation_4_digit_code" ->
         process_decedent_occupation_code(value)
    [] field = "decedents_usual_occindu_occupation_recode" ->
         process_decedent_occupation_recode(value)
    [] field = "decedents_usual_occindu_industry_4_digit_code" ->
         process_decedent_industry_code(value)
    [] field = "decedents_usual_occindu_industry_recode" ->
         process_decedent_industry_recode(value)

\* what the loop of process_line does with catalog entry i: nothing for a
\* reserved range or a name without a branch, else the decoder's result
field_result(line, i) ==
  LET start == mapping[i][1]
      end == mapping[i][2]
      field == mapping[i][3]
      value == strip(slice(line, start - 1, end))
  IN IF field = "reserved_positions" \/ ~has_branch(field)
     THEN [tag |-> "Skip"]
     ELSE decode(field, value)

\* variant: the loop storing a result only when its value is not None
is_stored_unless_none(r, i) ==
  /\ r.tag = "Ok"
  /\ mapping[i][3] # "education_reporting_flag"
  /\ r.val[2] # VNone

\* whether the loop stores the result of catalog entry i (d[k] = v); the
\* education_reporting_flag branch does not
is_stored(r, i) == r.tag = "Ok" /\ mapping[i][3] # "education_reporting_flag"

\* what the loop has done once every entry's decoder has run, r[i] being the
\* result of entry i: it left at the first entry whose decoder gave no Ok, and
\* otherwise d holds, under each key, the value stored last
loop_outcome(r) ==
  LET stopped == { i \in 1..Len(r) : r[i].tag \in {"Err", "Raise"} }
      stored == { i \in 1..Len(r) : is_stored(r[i], i) }
      keys == { r[i].val[1] : i \in stored }
      last(k) == CHOOSE i \in stored :
                   /\ r[i].val[1] = k
                   /\ \A j \in stored : r[j].val[1] = k => j <= i
  IN IF stopped # {}
     THEN r[CHOOSE i \in stopped : \A j \in stopped : i <= j]
     ELSE Ok([k \in keys |-> r[last(k)].val[2]])

\* The loop of process_line.  The decoders are pure, so the loop is computed
\* entry by entry (each entry's decoder is evaluated once).
process_line(line) ==
  CHOOSE d \in { loop_outcome(r) :
                   r \in { SubSeq([i \in 1..Len(mapping) |-> field_result(line, i)],
                                   1, Len(mapping)) } } : TRUE

-----------------------------------------------------------------------------
(* The row assembler: the loop body of process_lines_batch (main.py 1417-1480) *)

\* a or b
or(a, b) == IF Truthy(a) THEN a ELSE b

\* lines 1420-1427
final_age_of(processed_line) ==
  or(get(processed_line, "detail_age"),
     or(get(processed_line, "infant_age_recode_22"),
        or(get(processed_line, "age_recode_52"),
           or(get(processed_line, "age_recode_27"),
              or(get(processed_line, "age_recode_12"), VNone)))))

\* variant: age_bounds giving a lone integer age as the lower bound only
age_bounds_lower_only(final_age) ==
  IF Truthy(final_age) /\ final_age.t = "Tuple"
  THEN <<VInt(final_age.lo), VInt(final_age.hi)>>
  ELSE IF Truthy(final_age) /\ final_age.t = "Int"
  THEN <<final_age, VNone>>
  ELSE <<VNone, VNone>>

\* lines 1428-1438: <<age_lower_bound, age_upper_bound>>
age_bounds(final_age) ==
  IF Truthy(final_age) /\ final_age.t = "Tuple"
  THEN <<VInt(final_age.lo), VInt(final_age.hi)>>
  ELSE IF Truthy(final_age) /\ final_age.t = "Int"
  THEN <<final_age, final_age>>
  ELSE <<VNone, VNone>>

\* variant: the entity-axis slots collected without the `if` of line 1444
entity_axis_conditions_with_placeholders(processed_line) ==
  [i \in 1..20 |-> get(processed_line, entity_axis_condition_key(i))]

\* lines 1441-1445: the truthy slots, in slot order
entity_axis_conditions_of(processed_line) ==
  SelectSeq([i \in 1..20 |-> get(processed_line, entity_axis_condition_key(i))], Truthy)

\* lines 1448-1452
record_axis_conditions_of(processed_line) ==
  SelectSeq([i \in 1..20 |-> get(processed_line, record_axis_condition_key(i))], Truthy)

\* the keys lines 1455-1470 delete
removed_keys ==
  { "detail_age", "infant_age_recode_22", "age_recode_52", "age_recode_27",
    "age_recode_12", "education_reporting_flag", "age_substitution_flag",
    "number_of_entity_axis_conditions", "number_of_record_axis_conditions",
    "race_imputation_flag" }

\* variant: strip_keys without the maybe_del of the three flags
strip_keys_keeping_flags(processed_line) ==
  [k \in { x \in DOMAIN processed_line :
             /\ ~is_entity_axis_field(x)
             /\ ~is_record_axis_field(x)
             /\ x \notin removed_keys \ {"age_substitution_flag", "race_imputation_flag"} }
     |-> processed_line[k]]

\* utils.maybe_del over the keys above and the per-slot keys
strip_keys(processed_line) ==
  [k \in { x \in DOMAIN processed_line :
             /\ ~is_entity_axis_field(x)
             /\ ~is_record_axis_field(x)
             /\ x \notin removed_keys } |-> processed_line[k]]

\* lines 1473-1479
assemble_row(processed_line) ==
  LET bounds == age_bounds(final_age_of(processed_line))
      kept == strip_keys(processed_line)
      added ==
        ( "age_lower_bound" :> bounds[1]
          @@ "age_upper_bound" :> bounds[2]
          @@ "entity_axis_conditions" :>
               VList(entity_axis_conditions_of(processed_line))
          @@ "record_axis_conditions" :>
               VList(record_axis_conditions_of(processed_line)) )
  IN added @@ kept

\* one pass of the for loop of process_lines_batch over one line
process_one(line) ==
  CHOOSE out \in { IF r.tag # "Ok" THEN r ELSE Ok(assemble_row(r.val)) :
                     r \in { process_line(line) } } : TRUE

-----------------------------------------------------------------------------
(* dataset_schema (schema.py 381-413) and the cast of line 1401 *)

\* pl.Enum([v for v in m.values() if v is not None]) of an int- or str-keyed table
enum_of(m) == { m[k] : k \in { x \in DOMAIN m : m[x] # VNone } }

\* the same for the range-keyed table
enum_of_ranges(d) == { d[i][3] : i \in { j \in 1..Len(d) : d[j][3] # VNone } }

\* schema.py 303-305: the Enum of the first 15 values of race_recode_40_mapping
race_recode_40_enum == { race_recode_40_mapping[k] : k \in 1..15 }

\* pl.Int8
is_int8(v) == v.t = "Int" /\ -128 <= v.i /\ v.i <= 127

\* whether the column's target type takes a non-null value v
column_accepts(column, v) ==
  CASE column = "record_type" -> v \in enum_of(record_type_mapping)
    [] column = "resident_status" -> v \in enum_of(resident_status_mapping)
    [] column = "education" -> v \in enum_of(education_mapping)
    [] column = "month_of_death" -> is_int8(v)
    [] column = "sex" -> v \in enum_of(sex_mapping)
    [] column = "age_lower_bound" -> v.t = "Int"
    [] column = "age_upper_bound" -> v.t = "Int"
    [] column = "place_of_death" -> v \in enum_of(place_of_death_mapping)
    [] column = "marital_status" -> v \in enum_of(marital_status_mapping)
    [] column = "day_of_week_of_death" -> v \in enum_of(day_of_week_of_death_mapping)
    [] column = "injury_at_work" -> v.t = "Bool"
    [] column = "manner_of_death" -> v \in enum_of(manner_of_death_mapping)
    [] column = "method_of_disposition" -> v \in enum_of(method_of_disposition_mapping)
    [] column = "autopsy" -> v.t = "Bool"
    [] column = "activity_code" -> v \in enum_of(activity_code_mapping)
    [] column = "place_of_injury" -> v \in enum_of(place_of_injury_mapping)
    [] column = "icd_code" -> v.t = "Text"
    [] column = "cause_recode_358" -> v.t = "Text"
    [] column = "cause_recode_113" -> v.t = "Text"
    [] column = "infant_cause_recode_130" -> v.t = "Text"
    [] column = "cause_recode_39" -> is_int8(v)
    [] column = "entity_axis_conditions" ->
         /\ v.t = "List"
         /\ \A i \in 1..Len(v.xs) :
              /\ v.xs[i].t = "Dict"
              /\ v.xs[i].certificate_part.t = "Str"
              /\ is_int8(v.xs[i].certificate_line)
              /\ v.xs[i].condition.t = "Text"
    [] column = "record_axis_conditions" ->
         v.t = "List" /\ \A i \in 1..Len(v.xs) : v.xs[i].t = "Text"
    [] column = "race_recode_6" -> v \in enum_of(race_recode_6_mapping)
    [] column = "hispanic_origin" -> v \in enum_of_ranges(hispanic_origin_mapping)
    [] column = "hispanic_origin_race_recode" ->
         v \in enum_of(hispanic_origin_race_recode_mapping)
    [] column = "race_recode_40" ->
         v.t = "List" /\ \A i \in 1..Len(v.xs) : v.xs[i] \in race_recode_40_enum
    [] column = "decedent_occupation_code" -> v.t = "Text"
    [] column = "decedent_occupation_recode" ->
         v \in enum_of(decedent_occupation_recode_mapping)
    [] column = "decedent_industry_code" -> v.t = "Text"
    [] column = "decedent_industry_recode" ->
         v \in enum_of(decedent_industry_recode_mapping)

\* the column names of dataset_schema
dataset_schema ==
  { "record_type", "resident_status", "education", "month_of_death", "sex",
    "age_lower_bound", "age_upper_bound", "place_of_death", "marital_status",
    "day_of_week_of_death", "injury_at_work", "manner_of_death",
    "method_of_disposition", "autopsy", "activity_code", "place_of_injury",
    "icd_code", "cause_recode_358", "cause_recode_113", "infant_cause_recode_130",
    "cause_recode_39", "entity_axis_conditions", "record_axis_conditions",
    "race_recode_6", "hispanic_origin", "hispanic_origin_race_recode",
    "race_recode_40", "decedent_occupation_code", "decedent_occupation_recode",
    "decedent_industry_code", "decedent_industry_recode" }

\* .cast(dataset_schema) succeeds on a row: every schema column is there and
\* holds null or a value of the column's type
cast_accepts(row) ==
  \A column \in dataset_schema :
    /\ column \in DOMAIN row
    /\ row[column] = VNone \/ column_accepts(column, row[column])

-----------------------------------------------------------------------------
(* Input lines *)

RecordLength == mapping[Len(mapping)][2]

\* a record of blanks, as f.readlines() gives it (the newline kept)
blank_line == [i \in 1..(RecordLength + 1) |-> IF i <= RecordLength THEN " " ELSE "\n"]

field_index(name) == CHOOSE i \in 1..Len(mapping) : mapping[i][3] = name

\* `line` with `text` written left-justified into the field `name`
with_field(line, name, text) ==
  LET start == mapping[field_index(name)][1]
  IN SubSeq(line, 1, start - 1) \o text \o SubSeq(line, start + Len(text), Len(line))

RECURSIVE with_fields(_, _)
with_fields(line, fs) ==
  IF fs = <<>> THEN line
  ELSE with_fields(with_field(line, fs[1][1], fs[1][2]), Tail(fs))

\* The lines a run is fed: two records that decode (to different rows), one whose
\* month_of_death is not a number, one whose sex is no code of the table, one
\* whose detail_age has unit selector 3, one with a composite race_recode_40.
LineCatalog ==
  << with_fields(blank_line,
       << <<"record_type", <<"1">> >>, <<"month_of_death", <<"0", "1">> >>,
          <<"sex", <<"M">> >>, <<"detail_age", <<"1", "0", "5", "0">> >>,
          <<"age_recode_27", <<"1", "6">> >>, <<"marital_status", <<"M">> >>,
          <<"entity_axis_condition_1", <<"1", "1", "I", "2", "1", "9">> >>,
          <<"record_axis_condition_1", <<"I", "2", "1", "9">> >>,
          <<"race_recode_40", <<"0", "4">> >> >>),
     with_fields(blank_line,
       << <<"record_type", <<"2">> >>, <<"month_of_death", <<"1", "2">> >>,
          <<"sex", <<"F">> >>, <<"age_recode_12", <<"0", "5">> >>,
          <<"injury_at_work", <<"N">> >>,
          <<"race_recode_40", <<"1", "5">> >> >>),
     with_fields(blank_line, << <<"month_of_death", <<"A", "B">> >> >>),
     with_fields(blank_line,
       << <<"month_of_death", <<"0", "3">> >>, <<"sex", <<"X">> >> >>),
     with_fields(blank_line,
       << <<"sex", <<"M">> >>, <<"detail_age", <<"3", "0", "0", "5">> >> >>),
     with_fields(blank_line,
       << <<"sex", <<"F">> >>, <<"race_recode_40", <<"2", "2">> >> >>) >>

LineIds == 1..Len(LineCatalog)
LineText(id) == LineCatalog[id]

\* process_one is a pure function of the line's text: what it gives for each
\* line of the catalog
DecodedCatalog ==
  SubSeq([id \in 1..Len(LineCatalog) |-> process_one(LineCatalog[id])],
         1, Len(LineCatalog))

-----------------------------------------------------------------------------
(* Bounds of the model *)

\* most lines in the input file
MaxLines == 3
\* largest MAX_PARALLEL_PROCESSING
MaxWorkers == 2
\* longest raw text handed to a decoder under test (shorter for narrower fields)
MaxProbeLen == 3

-----------------------------------------------------------------------------
(* parallel_process_lines (main.py 1341-1403) and the workers running       *)
(* process_lines_batch (main.py 1406-1483)                                  *)

NoValue == [tag |-> "None"]

\* lines 1348-1349
lines_per_process(n, w) == IF n \div w < 1 THEN 1 ELSE n \div w

\* lines 1352-1355: range(0, len(lines), lines_per_process) and the slices
make_batches(ls, w) ==
  LET lpp == lines_per_process(Len(ls), w)
      count == (Len(ls) + lpp - 1) \div lpp
  IN [j \in 1..count |-> slice(ls, (j - 1) * lpp, (j - 1) * lpp + lpp)]

\* rich hands out task ids in the order of add_task: 0 is the task of __main__,
\* 1 the one of load_file, 2 "> Processing lines", then one per batch
overall_progress_task == 2
\* every batch handed the id of the first batch's task
batch_task_of_first_batch(j) == overall_progress_task + 1
batch_task(j) == overall_progress_task + j

\* the futures that are done with a frame, a failed batch never counted
n_finished_counting_successes ==
  Cardinality({ j \in 1..Len(fstate) : fstate[j] = "done" /\ fresult[j].tag = "Ok" })

\* sum([future.done() for future, _ in futures])
n_finished == Cardinality({ j \in 1..Len(fstate) : fstate[j] = "done" })

\* a pl.DataFrame, the rows it holds in order
DataFrame(rows) == [tag |-> "DataFrame", val |-> rows]

\* the rows of each frame of a list of frames
rows_of(frames) == [j \in 1..Len(frames) |-> frames[j].val]

\* pl.concat of the batch frames, each a sequence of rows
RECURSIVE concat(_)
concat(frames) == IF frames = <<>> THEN <<>> ELSE frames[1] \o concat(Tail(frames))

\* the results of the batches whose bar the monitoring loop has hidden, as a
\* collection driven by the progress channel would take them
collect_results_of_hidden_bars(fr, order) ==
  LET keep == { j \in 1..Len(fr) : ~bars[batch_task(j)].visible }
      rank(j) == Cardinality({ k \in keep : k <= j })
  IN [i \in 1..Cardinality(keep) |-> fr[CHOOSE j \in keep : rank(j) = i]]

\* line 1398: [future.result() for future, _ in futures]
collect_results(fr, order) == [j \in 1..Len(fr) |-> fr[j]]

Init ==
  /\ lines \in UNION { [1..n -> LineIds] : n \in 0..MaxLines }
  /\ W \in 1..MaxWorkers
  /\ pc = "start"
  /\ batches = <<>>
  /\ fstate = <<>>
  /\ fn = <<>>
  /\ ftemp = <<>>
  /\ fresult = <<>>
  /\ _progress = <<>>
  /\ bars = <<>>
  /\ results = <<>>
  /\ outcome = NoValue
  /\ ncast = 0
  /\ completion = <<>>
  /\ probe = NoValue

\* lines 1347-1378: partition, create the progress tasks, submit every batch
Submit ==
  /\ pc = "start"
  /\ LET bs == make_batches(lines, W)
     IN /\ batches' = bs
        /\ fstate' = [j \in 1..Len(bs) |-> "queued"]
        /\ fn' = [j \in 1..Len(bs) |-> 0]
        /\ ftemp' = [j \in 1..Len(bs) |-> <<>>]
        /\ fresult' = [j \in 1..Len(bs) |-> NoValue]
        /\ bars' =
             [t \in {overall_progress_task} \cup { batch_task(j) : j \in 1..Len(bs) } |->
                IF t = overall_progress_task
                THEN [completed |-> 0, total |-> Len(lines), visible |-> TRUE]
                ELSE [completed |-> 0, total |-> Len(bs[t - overall_progress_task]),
                      visible |-> TRUE]]
  /\ pc' = "monitor"
  /\ UNCHANGED <<lines, W, _progress, results, outcome, ncast, completion, probe>>

\* the pool hands the oldest queued batch to a free worker process
WorkerStart(j) ==
  /\ pc = "monitor"
  /\ j \in 1..Len(fstate)
  /\ fstate[j] = "queued"
  /\ \A k \in 1..(j - 1) : fstate[k] # "queued"
  /\ Cardinality({ k \in 1..Len(fstate) : fstate[k] = "running" }) < W
  /\ fstate' = [fstate EXCEPT ![j] = "running"]
  /\ UNCHANGED <<lines, W, pc, batches, fn, ftemp, fresult, _progress, bars, results,
                 outcome, ncast, completion, probe>>

\* lines 1413-1480: one pass of the loop of process_lines_batch; an Err of
\* process_line leaves through .up(), an exception ends the call
WorkerLine(j) ==
  /\ pc = "monitor"
  /\ j \in 1..Len(fstate)
  /\ fstate[j] = "running"
  /\ fn[j] < Len(batches[j])
  /\ LET n == fn[j] + 1
         r == DecodedCatalog[batches[j][n]]
     IN /\ fn' = [fn EXCEPT ![j] = n]
        /\ _progress' =
             put(_progress, batch_task(j), [progress |-> n, total |-> Len(batches[j])])
        /\ IF r.tag = "Ok"
           THEN /\ ftemp' = [ftemp EXCEPT ![j] = Append(@, r.val)]
                /\ UNCHANGED <<fstate, fresult, completion>>
           ELSE /\ fstate' = [fstate EXCEPT ![j] = "done"]
                /\ fresult' = [fresult EXCEPT ![j] = r]
                /\ completion' = Append(completion, j)
                /\ UNCHANGED ftemp
  /\ UNCHANGED <<lines, W, pc, batches, bars, results, outcome, ncast, probe>>

\* lines 1482-1483: the frame of the whole batch is returned
WorkerReturn(j) ==
  /\ pc = "monitor"
  /\ j \in 1..Len(fstate)
  /\ fstate[j] = "running"
  /\ fn[j] = Len(batches[j])
  /\ fstate' = [fstate EXCEPT ![j] = "done"]
  /\ fresult' = [fresult EXCEPT ![j] = Ok(ftemp[j])]
  /\ completion' = Append(completion, j)
  /\ UNCHANGED <<lines, W, pc, batches, fn, ftemp, _progress, bars, results, outcome,
                 ncast, probe>>

\* lines 1381-1396: one turn of the monitoring loop
MonitorPoll ==
  /\ pc = "monitor"
  /\ n_finished < Len(fstate)
  /\ bars' =
       [t \in DOMAIN bars |->
          IF t = overall_progress_task
          THEN [completed |-> n_finished, total |-> Len(fstate), visible |-> TRUE]
          ELSE IF t \in DOMAIN _progress
          THEN [completed |-> _progress[t].progress, total |-> _progress[t].total,
                visible |-> _progress[t].progress < _progress[t].total]
          ELSE bars[t]]
  /\ UNCHANGED <<lines, W, pc, batches, fstate, fn, ftemp, fresult, _progress, results,
                 outcome, ncast, completion, probe>>

\* line 1398, reached when every future is done: future.result() re-raises the
\* exception of the first future that ended with one
Collect ==
  /\ pc = "monitor"
  /\ n_finished = Len(fstate)
  /\ LET raised == { j \in 1..Len(fresult) : fresult[j].tag = "Raise" }
     IN IF raised # {}
        THEN /\ outcome' = fresult[CHOOSE j \in raised : \A k \in raised : j <= k]
             /\ pc' = "done"
             /\ UNCHANGED results
        ELSE /\ results' = collect_results(fresult, completion)
             /\ pc' = "collected"
             /\ UNCHANGED outcome
  /\ UNCHANGED <<lines, W, batches, fstate, fn, ftemp, fresult, _progress, bars, ncast,
                 completion, probe>>

\* the frames of the batches that returned Ok, the failed ones dropped
RECURSIVE successful_frames(_)
successful_frames(rs) ==
  IF rs = <<>> THEN <<>>
  ELSE IF rs[1].tag = "Ok" THEN <<DataFrame(rs[1].val)>> \o successful_frames(Tail(rs))
  ELSE successful_frames(Tail(rs))

\* line 1400 without .up(): a failed batch is skipped instead of ending the run
Unwrap_skipping_failed ==
  /\ pc = "collected"
  /\ pc' = "unwrapped"
  /\ results' = successful_frames(results)
  /\ UNCHANGED <<lines, W, batches, fstate, fn, ftemp, fresult, _progress, bars, ncast,
                 completion, probe, outcome>>

\* line 1400: [r.up() for r in results] leaves with the first Err
Unwrap ==
  /\ pc = "collected"
  /\ LET failed == { j \in 1..Len(results) : results[j].tag = "Err" }
     IN IF failed # {}
        THEN /\ outcome' = results[CHOOSE j \in failed : \A k \in failed : j <= k]
             /\ pc' = "done"
             /\ UNCHANGED results
        ELSE /\ pc' = "unwrapped"
             /\ results' = [j \in 1..Len(results) |-> DataFrame(results[j].val)]
             /\ UNCHANGED outcome
  /\ UNCHANGED <<lines, W, batches, fstate, fn, ftemp, fresult, _progress, bars, ncast,
                 completion, probe>>

\* lines 1401-1403: pl.concat refuses an empty list; the cast refuses a value
\* outside its column's type
ConcatCast ==
  /\ pc = "unwrapped"
  /\ IF results = <<>>
     THEN /\ outcome' = Raise("ValueError")
          /\ UNCHANGED ncast
     ELSE LET df == concat(rows_of(results))
          IN /\ ncast' = ncast + 1
             /\ outcome' = IF \A i \in 1..Len(df) : cast_accepts(df[i])
                           THEN Ok(df)
                           ELSE Raise("InvalidOperationError")
  /\ pc' = "done"
  /\ UNCHANGED <<lines, W, batches, fstate, fn, ftemp, fresult, _progress, bars, results,
                 completion, probe>>

Next ==
  \/ Submit
  \/ \E j \in DOMAIN fstate : WorkerStart(j)
  \/ \E j \in DOMAIN fstate : WorkerLine(j)
  \/ \E j \in DOMAIN fstate : WorkerReturn(j)
  \/ MonitorPoll
  \/ Collect
  \/ Unwrap
  \/ ConcatCast

Spec == Init /\ [][Next]_vars

\* the steps of the worker processes and those of the main process
Worker ==
  \E j \in DOMAIN fstate : WorkerStart(j) \/ WorkerLine(j) \/ WorkerReturn(j)
Main == Submit \/ Collect \/ Unwrap \/ ConcatCast

\* The operating system keeps scheduling the pool's worker processes and the
\* main process: a step that stays possible is eventually taken.  Nothing is
\* assumed of the monitoring loop's turns.  Every step of a worker changes
\* fstate or fn and every step of the main process changes pc.
LiveSpec == Spec /\ WF_<<fstate, fn>>(Worker) /\ WF_pc(Main)

-----------------------------------------------------------------------------
(* The decoders and the row assembler applied to enumerated inputs *)

\* characters tried in fields at most two wide, and in wider ones
NarrowAlphabet ==
  { "0", "1", "2", "3", "4", "5", "6", "7", "8", "9", "-",
    "B", "C", "D", "E", "F", "M", "N", "O", "R", "S", "U", "W", "X", "Y" }
WideAlphabet == { "0", "1", "2", "3", "4", "5", "6", "7", "8", "9", "-", "X" }

\* every text of length 0..n over the alphabet
texts(alphabet, n) == UNION { [1..k -> alphabet] : k \in 0..n }

\* the width of a field were its end position exclusive, as in a Python slice
field_width_end_exclusive(field) ==
  LET e == mapping[field_index(field)] IN e[2] - e[1]

field_width(field) ==
  LET e == mapping[field_index(field)] IN e[2] - e[1] + 1

\* the catalog's fields process_line decodes; of the 20 + 20 condition slots,
\* which share one decoder each, the first and the last
probe_fields ==
  { f \in { mapping[i][3] : i \in 1..Len(mapping) } :
      /\ f # "reserved_positions"
      /\ has_branch(f)
      /\ is_entity_axis_field(f) =>
           f \in {entity_axis_condition_key(1), entity_axis_condition_key(20)}
      /\ is_record_axis_field(f) =>
           f \in {record_axis_condition_key(1), record_axis_condition_key(20)} }

probe_texts(field) ==
  LET w == field_width(field)
  IN IF w <= 2 THEN texts(NarrowAlphabet, w)
     ELSE texts(WideAlphabet, IF w < MaxProbeLen THEN w ELSE MaxProbeLen)

\* the texts tried in the five age fields of a whole line
detail_age_probes ==
  { <<>>, <<"1", "-", "0", "5">> } \cup
  { <<u>> \o c : u \in {"1", "2", "3", "4", "5", "6", "9"},
                 c \in { <<"0", "0", "0">>, <<"0", "0", "1">>, <<"9", "9", "9">> } }
infant_age_recode_22_probes == { <<>>, <<"0", "1">>, <<"2", "2">> }
age_recode_52_probes == { <<>>, <<"0", "1">>, <<"3", "0">>, <<"5", "2">> }
age_recode_27_probes ==
  { <<>>, <<"0", "1">>, <<"0", "2">>, <<"1", "0">>, <<"2", "6">>, <<"2", "7">> }
age_recode_12_probes == { <<>>, <<"0", "1">>, <<"0", "5">>, <<"1", "2">> }

age_probe_lines ==
  { with_fields(blank_line,
      << <<"detail_age", a>>, <<"infant_age_recode_22", b>>, <<"age_recode_52", c>>,
         <<"age_recode_27", d>>, <<"age_recode_12", e>> >>) :
      a \in detail_age_probes, b \in infant_age_recode_22_probes,
      c \in age_recode_52_probes, d \in age_recode_27_probes,
      e \in age_recode_12_probes }

\* the texts tried in the condition slots of a whole line
entity_axis_condition_probes ==
  { <<>>, <<"2", "1", "6", "0", "0", "0">>, <<"1", "1", "I", "2", "1", "9">> }
record_axis_condition_probes == { <<>>, <<"I", "2", "1", "9">> }

condition_probe_lines ==
  { with_fields(blank_line,
      << <<entity_axis_condition_key(1), a>>, <<entity_axis_condition_key(3), b>>,
         <<entity_axis_condition_key(20), c>>, <<record_axis_condition_key(1), d>>,
         <<record_axis_condition_key(20), e>> >>) :
      a \in entity_axis_condition_probes, b \in entity_axis_condition_probes,
      c \in entity_axis_condition_probes, d \in record_axis_condition_probes,
      e \in record_axis_condition_probes }

probe_lines == age_probe_lines \cup condition_probe_lines

InitDecode ==
  /\ lines = <<>>
  /\ W = 1
  /\ pc = "idle"
  /\ batches = <<>>
  /\ fstate = <<>>
  /\ fn = <<>>
  /\ ftemp = <<>>
  /\ fresult = <<>>
  /\ _progress = <<>>
  /\ bars = <<>>
  /\ results = <<>>
  /\ outcome = NoValue
  /\ ncast = 0
  /\ completion = <<>>
  /\ \/ \E f \in probe_fields : \E v \in probe_texts(f) :
          probe = [kind |-> "field", field |-> f, value |-> v, result |-> NoValue]
     \/ \E l \in probe_lines :
          probe = [kind |-> "line", field |-> "", value |-> l, result |-> NoValue]

\* one decoder applied to one trimmed text, as process_line calls it
ApplyDecoder ==
  /\ probe.kind = "field"
  /\ probe.result = NoValue
  /\ probe' = [probe EXCEPT !.result = decode(probe.field, probe.value)]
  /\ UNCHANGED <<lines, W, pc, batches, fstate, fn, ftemp, fresult, _progress, bars,
                 results, outcome, ncast, completion>>

\* process_lines_batch's loop body applied to one whole line
AssembleRow ==
  /\ probe.kind = "line"
  /\ probe.result = NoValue
  /\ probe' = [probe EXCEPT !.result = process_one(probe.value)]
  /\ UNCHANGED <<lines, W, pc, batches, fstate, fn, ftemp, fresult, _progress, bars,
                 results, outcome, ncast, completion>>

NextDecode == ApplyDecoder \/ AssembleRow

DecodeSpec == InitDecode /\ [][NextDecode]_vars

-----------------------------------------------------------------------------
(* Properties of the batch pipeline (Spec) *)

\* whether input line i decodes: process_one gives a row for it
Decodable(i) == DecodedCatalog[lines[i]].tag = "Ok"

\* the rows decoded from the input lines, in input order
RowsInInputOrder == [i \in 1..Len(lines) |-> DecodedCatalog[lines[i]].val]

\* C1: for N >= 1 decodable lines, any worker count and any completion order,
\* the batch frames are merged by submission index: row i of the merged frame,
\* and of the table returned, is the row decoded from input line i.
C1_RowOrderIsInputOrder ==
  (Len(lines) >= 1 /\ \A i \in 1..Len(lines) : Decodable(i)) =>
    /\ pc = "unwrapped" => concat(rows_of(results)) = RowsInInputOrder
    /\ (pc = "done" /\ outcome.tag = "Ok") => outcome.val = RowsInInputOrder

\* C1 witness: a table was returned for two batches holding different lines,
\* the second of which completed first.
C1_Witness ==
  /\ pc = "done"
  /\ outcome.tag = "Ok"
  /\ Len(batches) >= 2
  /\ completion[1] = 2
  /\ lines[1] # lines[2]
  /\ outcome.val = RowsInInputOrder

\* C2: if some line fails to decode, the batch holding it returns Err, the
\* pipeline returns Err, and no table is produced or cast.
C2_DecodeFailureGivesErr ==
  (pc = "done" /\ \E i \in 1..Len(lines) : ~Decodable(i)) =>
    /\ outcome.tag = "Err"
    /\ ncast = 0
    /\ \A j \in 1..Len(batches) :
         (\E n \in 1..Len(batches[j]) : DecodedCatalog[batches[j][n]].tag # "Ok") =>
           fresult[j].tag = "Err"

\* ceil(n / w)
CeilDiv(n, w) == (n + w - 1) \div w

\* C6: for N >= 1 lines and W >= 1 workers the batches are contiguous slices of
\* the lines in original order, and every batch but the last holds ceil(N/W)
\* lines.
C6_BatchesOfCeilSize ==
  (pc # "start" /\ Len(lines) >= 1) =>
    /\ concat(batches) = lines
    /\ \A j \in 1..(Len(batches) - 1) : Len(batches[j]) = CeilDiv(Len(lines), W)

\* C21: the schema cast runs at most once in a run, only when every batch has
\* finished, on the concatenation of all batch frames, and never in a run in
\* which a batch returned an error.
C21_CastOnceAfterMerge ==
  /\ ncast <= 1
  /\ ncast = 1 =>
       /\ pc = "done"
       /\ \A j \in 1..Len(fstate) : fstate[j] = "done" /\ fresult[j].tag = "Ok"
       /\ outcome.tag = "Ok" => outcome.val = concat(rows_of(fresult))

\* C21 witness: the cast has run on the merged frames of two batches.
C21_Witness ==
  /\ ncast = 1
  /\ Len(batches) >= 2
  /\ outcome.tag = "Ok"
  /\ Len(outcome.val) = Len(lines)

\* process_lines_batch run on its own: the first line that does not decode ends
\* the batch with its Err or exception, else the frame of all rows is returned
batch_result(b) ==
  LET bad == { n \in 1..Len(b) : DecodedCatalog[b[n]].tag # "Ok" }
  IN IF bad = {}
     THEN Ok([n \in 1..Len(b) |-> DecodedCatalog[b[n]].val])
     ELSE DecodedCatalog[b[CHOOSE n \in bad : \A m \in bad : n <= m]]

\* parallel_process_lines with the batches run one after the other and no
\* progress reporting: the result as a function of the lines and W alone
run_result(ls, w) ==
  LET bs == make_batches(ls, w)
      rs == [j \in 1..Len(bs) |-> batch_result(bs[j])]
      raised == { j \in 1..Len(rs) : rs[j].tag = "Raise" }
      failed == { j \in 1..Len(rs) : rs[j].tag = "Err" }
  IN IF raised # {} THEN rs[CHOOSE j \in raised : \A k \in raised : j <= k]
     ELSE IF failed # {} THEN rs[CHOOSE j \in failed : \A k \in failed : j <= k]
     ELSE IF bs = <<>> THEN Raise("ValueError")
     ELSE LET df == concat([j \in 1..Len(rs) |-> rs[j].val])
          IN IF \A i \in 1..Len(df) : cast_accepts(df[i])
             THEN Ok(df)
             ELSE Raise("InvalidOperationError")

\* C22: progress reporting does not interfere with decoding: whatever the
\* interleaving of the workers' progress writes and the monitoring loop's
\* reads, a finished run's result is the one determined by the lines and W
\* alone (the same table in the same row order, or the same error).
C22_ProgressDoesNotInterfere == pc = "done" => outcome = run_result(lines, W)

\* C22 witness: a run of two batches returned its table after the monitoring
\* loop had read a progress entry and hidden the bar of a finished batch.
C22_Witness ==
  /\ pc = "done"
  /\ outcome.tag = "Ok"
  /\ Len(batches) >= 2
  /\ \E j \in 1..Len(batches) : ~bars[batch_task(j)].visible
  /\ \E j \in 1..Len(batches) : bars[batch_task(j)].visible

\* the run has ended with one complete table, or with one error (an Err
\* returned or an exception raised), and with nothing else
RunEnded ==
  /\ pc = "done"
  /\ \/ outcome.tag = "Ok" /\ Len(outcome.val) = Len(lines)
     \/ outcome.tag \in {"Err", "Raise"}

\* C23: under fair scheduling of the workers, a run on N >= 1 lines eventually
\* leaves the monitoring loop and ends with exactly one outcome, a complete
\* table or an error, whether every batch succeeds or some batch fails.
C23_RunEventuallyEnds ==
  /\ (pc = "start" /\ Len(lines) >= 1) ~> RunEnded
  /\ [](pc = "done" => RunEnded)

\* C23 witness: a run ended although one of its batches had failed while
\* another returned its frame.
C23_Witness ==
  /\ RunEnded
  /\ Len(lines) >= 1
  /\ \E j \in 1..Len(fresult) : fresult[j].tag = "Err"
  /\ \E j \in 1..Len(fresult) : fresult[j].tag = "Ok"

\* C25: workers share no mutable state but the progress channel: a progress
\* entry is keyed by the task id of one batch and holds what that batch's
\* worker wrote last (no entry is written by two workers), and what a worker
\* has gathered or returned is determined by the lines of its own batch, under
\* every interleaving.
C25_WorkersShareOnlyProgress ==
  /\ \A j, k \in 1..Len(batches) : batch_task(j) = batch_task(k) => j = k
  /\ DOMAIN _progress \subseteq { batch_task(j) : j \in 1..Len(batches) }
  /\ \A j \in 1..Len(batches) :
       /\ batch_task(j) \in DOMAIN _progress <=> fn[j] >= 1
       /\ fn[j] >= 1 =>
            _progress[batch_task(j)] = [progress |-> fn[j], total |-> Len(batches[j])]
       /\ fstate[j] = "running" =>
            ftemp[j] = [n \in 1..Len(ftemp[j]) |-> DecodedCatalog[batches[j][n]].val]
       /\ fstate[j] = "done" => fresult[j] = batch_result(batches[j])

\* C25 witness: two workers ran at the same time and each wrote its progress
\* entry; then one returned its result while the other was still running.
C25_Witness ==
  /\ W = 2
  /\ Len(batches) >= 2
  /\ fstate[1] = "running" /\ fn[1] >= 1
  /\ fstate[2] = "done" /\ fn[2] >= 1
  /\ completion = <<2>>

\* the input lines that do not decode
FailingLines == { i \in 1..Len(lines) : ~Decodable(i) }

\* C26: when some lines are malformed, the error the run ends with is the
\* error of the lowest-indexed failing input line (the one of its first failing
\* field, which is what process_line gives for it), whatever W, the batch
\* boundaries and the order in which the batches complete.
C26_ErrorOfFirstFailingLine ==
  (pc = "done" /\ FailingLines # {}) =>
    outcome = DecodedCatalog[lines[CHOOSE i \in FailingLines :
                                     \A k \in FailingLines : i <= k]]

-----------------------------------------------------------------------------
(* Properties of the decoders and of the row assembler (DecodeSpec) *)

\* a decoder has been applied to the probe's text
Decoded == probe.kind = "field" /\ probe.result # NoValue

\* the row assembler has been applied to the probe's line
Assembled == probe.kind = "line" /\ probe.result # NoValue

\* the trimmed text a line holds in the field `name`
raw_field(line, name) ==
  LET e == mapping[field_index(name)] IN strip(slice(line, e[1] - 1, e[2]))

\* C3: a record whose detail_age is valid (selector 1, 2, 4, 5 or 6 and a count
\* 0..999) and whose age_recode_27 is valid gets both age bounds from the detail
\* age: the count times the selector's unit.
C3_DetailAgeTakesPrecedence ==
  Assembled =>
    LET age == raw_field(probe.value, "detail_age")
        recode == raw_field(probe.value, "age_recode_27")
    IN (/\ Len(age) = 4
        /\ age[1] \in {"1", "2", "4", "5", "6"}
        /\ \A i \in 2..4 : IsDigit(age[i])
        /\ IsIntLiteral(recode) /\ IntOf(recode) \in 1..26
        /\ probe.result.tag = "Ok") =>
         LET ms == VInt(IntOf(Tail(age)) * detail_age_mult[DigitVal(age[1])])
         IN /\ probe.result.val["age_lower_bound"] = ms
            /\ probe.result.val["age_upper_bound"] = ms

\* the components of a composite label after the two renamings
RenamedParts(mapped) ==
  [i \in 1..Len(mapped.w) |->
     IF mapped.w[i] = "ASIAN" THEN VLabel(<<"OTHER", "ASIAN">>)
     ELSE IF mapped.w[i] = "NHOPI" THEN VLabel(<<"OTHER", "PACIFIC", "ISLANDER">>)
     ELSE VLabel(<<mapped.w[i]>>)]

\* C4: process_race_recode_40 gives, for a composite code 15..40, the label's
\* components with ASIAN renamed OTHER_ASIAN and NHOPI renamed
\* OTHER_PACIFIC_ISLANDER, and for a direct code 1..14 the one mapped label.
C4_RaceRecode40Renames ==
  (/\ Decoded
   /\ probe.field = "race_recode_40"
   /\ IsIntLiteral(probe.value)
   /\ IntOf(probe.value) \in 1..40) =>
     LET v == IntOf(probe.value)
         mapped == race_recode_40_mapping[v]
     IN probe.result =
          Ok(<<"race_recode_40",
               VList(IF v <= 14 THEN <<mapped>> ELSE RenamedParts(mapped))>>)

\* C5: for the empty text every decoder returns Ok with None, except
\* process_age_substitution_flag and process_race_imputation_flag, which return
\* Ok(False).
C5_BlankGivesAbsent ==
  (Decoded /\ probe.value = <<>>) =>
    /\ probe.result.tag = "Ok"
    /\ probe.result.val[2] =
         IF probe.field \in {"age_substitution_flag", "race_imputation_flag"}
         THEN VBool(FALSE)
         ELSE VNone

\* C5 witness: the empty text has been decoded as a race_imputation_flag.
C5_Witness ==
  /\ Decoded
  /\ probe.value = <<>>
  /\ probe.field = "race_imputation_flag"
  /\ probe.result = Ok(<<"race_imputation_flag", VBool(FALSE)>>)

\* the key a row holds the value of the field under
RowKey(field) ==
  CASE field = "place_of_death_and_decedents_status" -> "place_of_death"
    [] field = "decedents_usual_occindu_occupation_recode" -> "decedent_occupation_recode"
    [] field = "decedents_usual_occindu_industry_recode" -> "decedent_industry_recode"
    [] OTHER -> field

\* C7: every Err a decoder returns names the failing field (by its name in the
\* catalog or in the row) and holds the offending raw text.
C7_ErrNamesFieldAndText ==
  (Decoded /\ probe.result.tag = "Err") =>
    /\ probe.result.err.field \in {probe.field, RowKey(probe.field)}
    /\ probe.result.err.text = probe.value

\* C8: for an integer text, process_month_of_death gives Err outside 1..12, the
\* two condition-count decoders give Err outside 0..20, process_cause_recode_39
\* gives Ok(None) outside 1..42, and inside its range each gives Ok with the
\* parsed integer.
C8_BoundedIntegerAsymmetry ==
  (Decoded /\ IsIntLiteral(probe.value)) =>
    LET v == IntOf(probe.value)
        res == probe.result
    IN /\ probe.field = "month_of_death" =>
            IF v \in 1..12 THEN res = Ok(<<"month_of_death", VInt(v)>>)
            ELSE res.tag = "Err"
       /\ probe.field \in {"number_of_entity_axis_conditions",
                           "number_of_record_axis_conditions"} =>
            IF v \in 0..20 THEN res = Ok(<<probe.field, VInt(v)>>)
            ELSE res.tag = "Err"
       /\ probe.field = "cause_recode_39" =>
            IF v \in 1..42 THEN res = Ok(<<"cause_recode_39", VInt(v)>>)
            ELSE res = Ok(<<"cause_recode_39", VNone>>)

\* C8 witness: code 43 has been decoded as a cause_recode_39.
C8_Witness ==
  /\ Decoded
  /\ probe.field = "cause_recode_39"
  /\ probe.value = <<"4", "3">>
  /\ probe.result = Ok(<<"cause_recode_39", VNone>>)

\* the lookup decoders whose table is keyed by the text itself
TextKeyed == {"marital_status", "injury_at_work", "method_of_disposition", "autopsy"}

\* the lookup decoders whose table is keyed by the parsed integer
IntKeyed ==
  {"education", "place_of_death_and_decedents_status", "day_of_week_of_death",
   "activity_code", "place_of_injury", "hispanic_origin_race_recode",
   "decedents_usual_occindu_occupation_recode",
   "decedents_usual_occindu_industry_recode"}

LookupTable(field) ==
  CASE field = "education" -> education_mapping
    [] field = "place_of_death_and_decedents_status" -> place_of_death_mapping
    [] field = "marital_status" -> marital_status_mapping
    [] field = "day_of_week_of_death" -> day_of_week_of_death_mapping
    [] field = "injury_at_work" -> injury_at_work_mapping
    [] field = "method_of_disposition" -> method_of_disposition_mapping
    [] field = "autopsy" -> autopsy_mapping
    [] field = "activity_code" -> activity_code_mapping
    [] field = "place_of_injury" -> place_of_injury_mapping
    [] field = "hispanic_origin_race_recode" -> hispanic_origin_race_recode_mapping
    [] field = "decedents_usual_occindu_occupation_recode" ->
         decedent_occupation_recode_mapping
    [] field = "decedents_usual_occindu_industry_recode" ->
         decedent_industry_recode_mapping

\* C9: a lookup decoder gives, for a non-blank code that is a key of its table,
\* Ok with the table's value (None and False included), and for a non-blank code
\* that is no key, Err.
C9_LookupKeyOrErr ==
  (Decoded /\ probe.value # <<>> /\ probe.field \in TextKeyed \cup IntKeyed) =>
    LET table == LookupTable(probe.field)
        is_key == IF probe.field \in TextKeyed THEN probe.value \in DOMAIN table
                  ELSE IsIntLiteral(probe.value) /\ IntOf(probe.value) \in DOMAIN table
        key == IF probe.field \in TextKeyed THEN probe.value ELSE IntOf(probe.value)
    IN IF is_key THEN probe.result = Ok(<<RowKey(probe.field), table[key]>>)
       ELSE probe.result.tag = "Err"

\* C9 witness: code N has been decoded as an injury_at_work, giving Ok(False).
C9_Witness ==
  /\ Decoded
  /\ probe.field = "injury_at_work"
  /\ probe.value = <<"N">>
  /\ probe.result = Ok(<<"injury_at_work", VBool(FALSE)>>)

\* C10: process_detail_age gives Ok(None) for a text whose first digit is a
\* unit selector other than 1, 2, 4, 5, 6 (that is 0, 3, 7, 8 or 9) followed by
\* a numeric count; it neither returns Err nor fails.
C10_UnsupportedSelectorGivesAbsent ==
  (/\ Decoded
   /\ probe.field = "detail_age"
   /\ Len(probe.value) >= 2
   /\ probe.value[1] \in {"0", "3", "7", "8", "9"}
   /\ \A i \in 2..Len(probe.value) : IsDigit(probe.value[i])) =>
     probe.result = Ok(<<"detail_age", VNone>>)

-----------------------------------------------------------------------------
(* The age recodes against the record layout (DecodeSpec) *)

\* the units of the layout, in the model's unit of duration
OneHour == 3600000 \div MS_PER_UNIT
OneDay == 24 * OneHour
OneMonth == 30 * OneDay
OneYear == 365 * OneDay

\* a decoder was applied to an integer text in the field `name`
DecodedCode(name) == Decoded /\ probe.field = name /\ IsIntLiteral(probe.value)

\* the band of code c of the 52-way recode in the record layout, c in 2..50
LayoutBand52(c) ==
  CASE c = 2 -> <<OneHour, 23 * OneHour>>
    [] c \in 3..8 -> <<(c - 2) * OneDay, (c - 2) * OneDay>>
    [] c = 9 -> <<7 * OneDay, 13 * OneDay>>
    [] c = 10 -> <<14 * OneDay, 20 * OneDay>>
    [] c = 11 -> <<21 * OneDay, 27 * OneDay>>
    [] c \in 12..22 -> <<(c - 11) * OneMonth, (c - 11) * OneMonth>>
    [] c \in 23..26 -> <<(c - 22) * OneYear, (c - 22) * OneYear>>
    [] c \in 27..50 -> <<5 * (c - 26) * OneYear, (5 * (c - 26) + 4) * OneYear>>

\* C11: process_age_recode_52 gives, for every code 2..50, the band of the
\* record layout (9 is 7 to 13 days), both ends inclusive.
C11_AgeRecode52MatchesLayout ==
  (DecodedCode("age_recode_52") /\ IntOf(probe.value) \in 2..50) =>
    LET band == LayoutBand52(IntOf(probe.value))
    IN probe.result = Ok(<<"age_recode_52", VTuple(band[1], band[2])>>)

\* C12: process_age_recode_52 gives (0, 1 hour) for code 1, (125 years, 999
\* years) for code 51 and None for code 52, an hour being 3,600,000 ms and a
\* year 365 days, and Err for every integer outside 1..52.
C12_AgeRecode52Boundaries ==
  DecodedCode("age_recode_52") =>
    LET c == IntOf(probe.value)
    IN /\ c = 1 => probe.result = Ok(<<"age_recode_52", VTuple(0, OneHour)>>)
       /\ c = 51 =>
            probe.result = Ok(<<"age_recode_52", VTuple(125 * OneYear, 999 * OneYear)>>)
       /\ c = 52 => probe.result = Ok(<<"age_recode_52", VNone>>)
       /\ c \notin 1..52 => probe.result.tag = "Err"

\* C12 witness: code 51 has been decoded as an age_recode_52.
C12_Witness ==
  /\ DecodedCode("age_recode_52")
  /\ probe.value = <<"5", "1">>
  /\ probe.result = Ok(<<"age_recode_52", VTuple(125 * OneYear, 999 * OneYear)>>)

\* the bands of the other three recodes in the record layout; <<>> is absent
LayoutBand27(c) ==
  CASE c = 2 -> <<OneMonth, 11 * OneMonth>>
    [] c \in 3..6 -> <<(c - 2) * OneYear, (c - 2) * OneYear>>
    [] c \in 7..25 -> <<5 * (c - 6) * OneYear, (5 * (c - 6) + 4) * OneYear>>
    [] c = 26 -> <<100 * OneYear, 999 * OneYear>>
    [] c = 27 -> <<>>

LayoutBand12(c) ==
  CASE c = 2 -> <<OneYear, 4 * OneYear>>
    [] c \in 3..10 -> <<(5 + 10 * (c - 3)) * OneYear, (14 + 10 * (c - 3)) * OneYear>>
    [] c = 11 -> <<85 * OneYear, 999 * OneYear>>
    [] c = 12 -> <<>>

LayoutBand22(c) ==
  CASE c = 2 -> <<OneHour, 23 * OneHour>>
    [] c \in 3..8 -> <<(c - 2) * OneDay, (c - 2) * OneDay>>
    [] c = 9 -> <<7 * OneDay, 13 * OneDay>>
    [] c = 10 -> <<14 * OneDay, 20 * OneDay>>
    [] c = 11 -> <<21 * OneDay, 27 * OneDay>>
    [] c \in 12..22 -> <<(c - 11) * OneMonth, (c - 11) * OneMonth>>

\* the value a decoder returns for a band of the layout
BandValue(band) == IF band = <<>> THEN VNone ELSE VTuple(band[1], band[2])

\* C13: process_age_recode_27 (codes 2..27), process_age_recode_12 (codes
\* 2..12) and process_infant_age_recode_22 (codes 2..22) give the bands of the
\* record layout, None for the "not stated" codes 27 and 12.
C13_OtherRecodesMatchLayout ==
  /\ (DecodedCode("age_recode_27") /\ IntOf(probe.value) \in 2..27) =>
       probe.result = Ok(<<"age_recode_27", BandValue(LayoutBand27(IntOf(probe.value)))>>)
  /\ (DecodedCode("age_recode_12") /\ IntOf(probe.value) \in 2..12) =>
       probe.result = Ok(<<"age_recode_12", BandValue(LayoutBand12(IntOf(probe.value)))>>)
  /\ (DecodedCode("infant_age_recode_22") /\ IntOf(probe.value) \in 2..22) =>
       probe.result =
         Ok(<<"infant_age_recode_22", BandValue(LayoutBand22(IntOf(probe.value)))>>)

\* C13 witness: code 09 has been decoded as an infant_age_recode_22, giving 7
\* to 13 days.
C13_Witness ==
  /\ DecodedCode("infant_age_recode_22")
  /\ probe.value = <<"0", "9">>
  /\ probe.result = Ok(<<"infant_age_recode_22", VTuple(7 * OneDay, 13 * OneDay)>>)

-----------------------------------------------------------------------------
(* The finished row (DecodeSpec) *)

\* the row assembler has built a row from the probe's line
RowBuilt == Assembled /\ probe.result.tag = "Ok"

\* the trimmed text of entity-axis slot n and of record-axis slot n of the line
EntitySlot(n) == raw_field(probe.value, entity_axis_condition_key(n))
RecordSlot(n) == raw_field(probe.value, record_axis_condition_key(n))

\* entity-axis slot 3 of the line holds "216000" and the other 19 are blank
OnlySlot3Is216000 ==
  \A n \in 1..20 :
    EntitySlot(n) = IF n = 3 THEN <<"2", "1", "6", "0", "0", "0">> ELSE <<>>

NthSlot(S, k) == CHOOSE n \in S : Cardinality({ m \in S : m < n }) = k - 1

\* C15: in a row, entity_axis_conditions and record_axis_conditions hold exactly
\* one element per non-blank slot, in increasing slot order, and no None; so at
\* most 20 elements each, and none when every slot is blank.
C15_OneElementPerFilledSlot ==
  RowBuilt =>
    LET efilled == { n \in 1..20 : EntitySlot(n) # <<>> }
        rfilled == { n \in 1..20 : RecordSlot(n) # <<>> }
        es == probe.result.val["entity_axis_conditions"].xs
        rs == probe.result.val["record_axis_conditions"].xs
    IN /\ Len(es) = Cardinality(efilled)
       /\ Len(rs) = Cardinality(rfilled)
       /\ \A k \in 1..Len(es) :
            /\ es[k] # VNone
            /\ es[k].t = "Dict"
            /\ LET raw == EntitySlot(NthSlot(efilled, k))
               IN es[k].condition = VText(SubSeq(raw, 3, Len(raw)))
       /\ \A k \in 1..Len(rs) : rs[k] = VText(RecordSlot(NthSlot(rfilled, k)))

\* C15 witness: a row built from a line with entity slots 1 and 20 filled with
\* different texts and slot 3 blank, and record slot 20 filled and slot 1 blank.
C15_Witness ==
  /\ RowBuilt
  /\ EntitySlot(1) = <<"2", "1", "6", "0", "0", "0">>
  /\ EntitySlot(3) = <<>>
  /\ EntitySlot(20) = <<"1", "1", "I", "2", "1", "9">>
  /\ RecordSlot(1) = <<>>
  /\ RecordSlot(20) # <<>>
  /\ Len(probe.result.val["entity_axis_conditions"].xs) = 2
  /\ Len(probe.result.val["record_axis_conditions"].xs) = 1

\* the keys that exist only to feed the age bounds and the condition lists, or
\* are not meant for output
IntermediateKeys ==
  { "detail_age", "infant_age_recode_22", "age_recode_52", "age_recode_27",
    "age_recode_12", "number_of_entity_axis_conditions",
    "number_of_record_axis_conditions", "education_reporting_flag",
    "age_substitution_flag", "race_imputation_flag" }
  \cup { entity_axis_condition_key(n) : n \in 1..20 }
  \cup { record_axis_condition_key(n) : n \in 1..20 }

\* C16: no row holds an intermediate or administrative key.
C16_NoIntermediateKeyInRow ==
  RowBuilt => DOMAIN probe.result.val \cap IntermediateKeys = {}

\* C16 witness: a row built from a line whose detail_age and entity slot 3 are
\* filled.
C16_Witness ==
  /\ RowBuilt
  /\ \/ raw_field(probe.value, "detail_age") # <<>>
     \/ EntitySlot(3) # <<>>
  /\ "age_lower_bound" \in DOMAIN probe.result.val

\* the five age encodings of a line
AgeFields ==
  {"detail_age", "infant_age_recode_22", "age_recode_52", "age_recode_27", "age_recode_12"}

\* the bounds one age encoding of the probe's line stands for; <<>> when it is
\* blank, unknown or does not decode
EncodingBounds(field) ==
  LET d == decode(field, raw_field(probe.value, field))
  IN IF d.tag # "Ok" THEN <<>>
     ELSE IF d.val[2].t = "Int" THEN <<d.val[2], d.val[2]>>
     ELSE IF d.val[2].t = "Tuple" THEN <<VInt(d.val[2].lo), VInt(d.val[2].hi)>>
     ELSE <<>>

\* C17: in a row age_lower_bound and age_upper_bound are both None or both
\* present, and when present they are the two bounds of one encoding of the
\* line.
C17_BoundsFromOneEncoding ==
  RowBuilt =>
    LET lo == probe.result.val["age_lower_bound"]
        hi == probe.result.val["age_upper_bound"]
    IN \/ lo = VNone /\ hi = VNone
       \/ /\ lo # VNone
          /\ hi # VNone
          /\ \E f \in AgeFields : EncodingBounds(f) = <<lo, hi>>

\* C17 witness: a row built from a line with a detail age of 0 years and
\* age_recode_27 01, whose bounds are both those of the recode.
C17_Witness ==
  /\ RowBuilt
  /\ raw_field(probe.value, "detail_age") = <<"1", "0", "0", "0">>
  /\ raw_field(probe.value, "infant_age_recode_22") = <<>>
  /\ raw_field(probe.value, "age_recode_52") = <<>>
  /\ raw_field(probe.value, "age_recode_27") = <<"0", "1">>
  /\ probe.result.val["age_lower_bound"] = VInt(0)
  /\ probe.result.val["age_upper_bound"] = VInt(OneMonth)

-----------------------------------------------------------------------------
(* Totality and ranges of the decoders (DecodeSpec) *)

\* C18: every decoder returns Ok or Err for every text no longer than its
\* field, a one-character entity-axis slot and any detail-age unit selector
\* included; none ends with an exception.
C18_DecodersAreTotal == Decoded => probe.result.tag \in {"Ok", "Err"}

\* C19: every condition process_entity_axis_condition returns with Ok has part
\* PART_I or PART_II and a certificate line in 1..7.
C19_EntityConditionInRange ==
  (/\ Decoded
   /\ is_entity_axis_field(probe.field)
   /\ probe.result.tag = "Ok"
   /\ probe.result.val[2] # VNone) =>
     /\ probe.result.val[2].certificate_part \in {VStr("PART_I"), VStr("PART_II")}
     /\ probe.result.val[2].certificate_line.i \in 1..7

-----------------------------------------------------------------------------
(* Waiting in the batch pipeline (Spec) *)

\* some batch has ended with an Err or an exception
FailureObservable == \E j \in 1..Len(fresult) : fresult[j].tag \in {"Err", "Raise"}

\* C20: once a batch has failed, parallel_process_lines does not go round the
\* monitoring loop again waiting for the batches still unfinished.
C20_NoWaitingAfterFailure == [][FailureObservable => ~MonitorPoll]_vars

\* the names of the catalog's entries
CatalogNames == { mapping[i][3] : i \in 1..Len(mapping) }

\* C24: the field catalog is a well-formed layout for every record cut along
\* it: every entry has start <= end, the first starts at position 1, each
\* following one starts at the previous end + 1, so the entries cover the
\* record's positions 1..817 exactly once in declaration order; the 20
\* entity-axis slots are 7 wide and the 20 record-axis slots 5 wide.
C24_CatalogIsWellFormedLayout ==
  probe.kind = "line" =>
    /\ \A i \in 1..Len(mapping) : mapping[i][1] <= mapping[i][2]
    /\ mapping[1][1] = 1
    /\ \A i \in 2..Len(mapping) : mapping[i][1] = mapping[i - 1][2] + 1
    /\ RecordLength = 817
    /\ Len(probe.value) = RecordLength + 1
    /\ Cardinality({ i \in 1..Len(mapping) : is_entity_axis_field(mapping[i][3]) }) = 20
    /\ Cardinality({ i \in 1..Len(mapping) : is_record_axis_field(mapping[i][3]) }) = 20
    /\ entity_axis_fields \cup record_axis_fields \subseteq CatalogNames
    /\ \A f \in entity_axis_fields : field_width(f) = 7
    /\ \A f \in record_axis_fields : field_width(f) = 5

\* C24 witness: a record of 817 characters was cut along the catalog, and the
\* texts of its last entity-axis and last record-axis slots reached the row.
C24_Witness ==
  /\ RowBuilt
  /\ Len(probe.value) = 817 + 1
  /\ EntitySlot(20) = <<"1", "1", "I", "2", "1", "9">>
  /\ RecordSlot(20) = <<"I", "2", "1", "9">>
  /\ Len(probe.result.val["entity_axis_conditions"].xs) >= 1
  /\ Len(probe.result.val["record_axis_conditions"].xs) >= 1

\* C27: every value a decoder returns with Ok lies in the value set of its
\* output column in dataset_schema, so the final cast cannot fail on it: an
\* enumerated label is a member of the column's Enum, every element of a
\* race_recode_40 list is a member of that column's inner Enum, and
\* month_of_death, cause_recode_39 and certificate_line fit the 8-bit integer.
C27_DecodedValuesFitSchema ==
  (Decoded /\ probe.result.tag = "Ok" /\ probe.result.val[2] # VNone) =>
    /\ probe.result.val[1] \in dataset_schema =>
         column_accepts(probe.result.val[1], probe.result.val[2])
    /\ is_entity_axis_field(probe.field) =>
         is_int8(probe.result.val[2].certificate_line)

\* C28: every row built by process_lines_batch has exactly the 31 column names
\* declared in dataset_schema: no schema column is missing from the row and
\* the row has no key the schema does not declare.
C28_RowColumnsAreSchemaColumns ==
  RowBuilt =>
    /\ Cardinality(dataset_schema) = 31
    /\ DOMAIN probe.result.val = dataset_schema

\* C28 witness: a row was built from a line whose record_type is blank and
\* whose age is given; it holds the 31 columns, record_type among them.
C28_Witness ==
  /\ RowBuilt
  /\ raw_field(probe.value, "record_type") = <<>>
  /\ raw_field(probe.value, "detail_age") # <<>>
  /\ probe.result.val["record_type"] = VNone
  /\ probe.result.val["age_lower_bound"] # VNone
  /\ Cardinality(DOMAIN probe.result.val) = 31

\* C29: process_line skips only reserved ranges: the text of every catalog
\* entry whose name is not reserved_positions is passed to a decoder, whose
\* result is Ok, Err or an exception; no such field is silently ignored.
C29_OnlyReservedRangesSkipped ==
  Assembled =>
    \A i \in 1..Len(mapping) :
      mapping[i][3] # "reserved_positions" =>
        field_result(probe.value, i).tag \in {"Ok", "Err", "Raise"}

\* C30: in every finished row whose age bounds are present,
\* 0 <= age_lower_bound <= age_upper_bound, whichever of the five age
\* encodings supplied them; and so for every value an age decoder returns, for
\* every code of every recode table.
C30_AgeBoundsOrdered ==
  /\ RowBuilt =>
       LET lo == probe.result.val["age_lower_bound"]
           hi == probe.result.val["age_upper_bound"]
       IN (lo # VNone /\ hi # VNone) => (0 <= lo.i /\ lo.i <= hi.i)
  /\ (Decoded /\ probe.field \in AgeFields /\ probe.result.tag = "Ok") =>
       LET v == probe.result.val[2]
       IN /\ v.t = "Int" => 0 <= v.i
          /\ v.t = "Tuple" => (0 <= v.lo /\ v.lo <= v.hi)
====
